---------------------------- MODULE Spec2Model ----------------------------
(***************************************************************************)
(* Failover controller of mizuamedesu/hybrid-node-operator.                *)
(*                                                                         *)
(* The repository carries two pipelines side by side:                      *)
(*   - the record pipeline: crd/nodefailover.py (the NodeFailover custom   *)
(*     resource), handlers/node_event_handler.py (router),                 *)
(*     handlers/nodefailover_handler.py (controller) and                   *)
(*     handlers/reconciliation.py (startup pass and periodic sweep);       *)
(*   - the in-memory pipeline: state.py (StateManager), k8s/lock.py        *)
(*     (lease lock), handlers/node_watcher.py and handlers/reconciler.py.  *)
(*                                                                         *)
(* Spec           the record pipeline of one process, handlers invoked on  *)
(*                their triggers                                           *)
(* SpecCycle      the record pipeline of one process that is not           *)
(*                restarted, clock standing still                          *)
(* SpecReplicas   the creation path of the record pipeline, two replicas   *)
(* SpecStore      the record store under two replicas and their restarts   *)
(* SpecWatcher    the in-memory pipeline with the lease lock, two replicas *)
(* SpecWatcherOne the in-memory pipeline of one process with its join wait *)
(* SpecReconciler the in-memory pipeline of one process with its taint   *)
(*                and cleanup passes                                       *)
(* SpecKopf       one process with the NodeFailover handlers dispatched by *)
(*                the API group they are registered for, fair scheduling   *)
(*                                                                         *)
(* One process runs its coroutines on one event loop: a handler runs       *)
(* without interleaving up to its next await.  An action is one such       *)
(* segment.  Time is not measured: a sleep is a point where other actions  *)
(* may run, a timeout is a choice the environment makes.                   *)
(***************************************************************************)
EXTENDS Integers, FiniteSets, Sequences, TLC

\* ------------------------------------------------------------ bounds
MaxTime == 1          \* clock readings 0..MaxTime (VM-name and status timestamps)
MaxAllocated == 1     \* Allocated GameServers per substitute

\* ------------------------------------------------- program constants
MAX_VM_CREATION_ATTEMPTS == 3

Replicas == {"r1", "r2"}
OnpremNodes == {"worker-01"}
None == "none"

\* crd/nodefailover.py: NodeFailoverPhase
PENDING == "Pending"
CREATING == "Creating"
ACTIVE == "Active"
RECOVERING == "Recovering"
DRAINING == "Draining"
COMPLETED == "Completed"
NodeFailoverPhase == {PENDING, CREATING, ACTIVE, RECOVERING, DRAINING, COMPLETED}

\* crd/nodefailover.py: ConditionType
VM_CREATED == "VMCreated"
NODE_JOINED == "NodeJoined"
TAINT_APPLIED == "TaintApplied"
ONPREM_RECOVERED == "OnPremRecovered"
GAMESERVERS_DRAINED == "GameServersDrained"
ConditionType == {VM_CREATED, NODE_JOINED, TAINT_APPLIED, ONPREM_RECOVERED,
                  GAMESERVERS_DRAINED}

\* the canonical order of the phases (spec section 3, invariant 1)
Rank(p) ==
    CASE p = PENDING -> 0
      [] p = CREATING -> 1
      [] p = ACTIVE -> 2
      [] p = RECOVERING -> 3
      [] p = DRAINING -> 4
      [] p = COMPLETED -> 5

\* The readings of the clock (time.time(), datetime.now())
Timestamps == 0..MaxTime

\* A VM name "gcp-temp-<node>-<timestamp>": the node it was generated for
\* and the clock reading in it.
VmNames == [node : OnpremNodes, ts : Timestamps]

\* str.lower() on the node names of the model
Lower(n) == n

VARIABLES
    \* ---- cluster and cloud
    now,          \* the clock, in the unit of the VM-name timestamp
    ready,        \* [OnpremNodes -> BOOLEAN]: the node's Ready condition
    oosTaint,     \* on-premise nodes carrying node.kubernetes.io/out-of-service
    cloud,        \* VM instances existing in the cloud
    knodes,       \* substitutes registered as cluster node objects
    cordoned,     \* substitutes marked unschedulable
    drainTaint,   \* substitutes carrying temporary-node=draining:NoSchedule
    gsAllocated,  \* [VmNames -> 0..MaxAllocated]: Allocated GameServers on it
    \* ---- NodeFailover custom resources
    records,      \* the set of NodeFailover objects
    uids,         \* number of NodeFailover objects the API server has created
    \* ---- controller replicas (record pipeline)
    live,         \* the replicas that run
    succeeded,    \* [uid, vm]: create_instance returned success for vm to the create_failover_vm of record uid
    router,       \* [Replicas -> router record]: on_node_event between get and write
    createEvt,    \* [Replicas -> BOOLEAN]: undelivered record-creation event
    phaseEvt,     \* [Replicas -> SUBSET phases]: undelivered status.phase changes
    flow,         \* [Replicas -> flow record]: on_nodefailover_create / create_failover_vm
    joinTasks,    \* [Replicas -> SUBSET VmNames]: running wait_for_node_join tasks
    activeSleep,  \* [Replicas -> BOOLEAN]: handle_active_phase in its grace sleep
    sweep,        \* [Replicas -> sweep record]: _cleanup_draining_vms
    \* ---- controller replicas (in-memory pipeline)
    wstate,       \* [Replicas -> [OnpremNodes -> state]]: StateManager._failed_nodes
    lease,        \* the Lease object node-failover-lock-vm-create-<node>
    whandler,     \* [Replicas -> handler record]: node_watcher.on_node_event
    wflow,        \* [Replicas -> flow record]: node_watcher.create_failover_vm
    wjoin,        \* [Replicas -> SUBSET join tasks]: _wait_and_label_node
    wsweep,       \* [Replicas -> sweep record]: reconciler._cleanup_ready_vms
    \* ---- gcp/cloud_init.py
    naming,       \* one call of generate_vm_name: its arguments and what it returned
    \* ---- gcp/compute.py
    calls,        \* [uid -> number]: create_instance calls made for the record, as
                  \* far as a specification counts them
    \* ---- k8s/lock.py
    locking,      \* the Lease API and every replica's acquire_lock, step by step
    \* ---- crd/nodefailover.py
    patching,     \* one NodeFailover object and every replica's status write,
                  \* between its get and its patch
    \* ---- the labels of a substitute
    labeling      \* one run of the label flow: the on-premise node's labels, the
                  \* allow-list, and the substitute's labels after the patch

envVars == <<now, ready, oosTaint, cloud, knodes, cordoned, drainTaint,
            gsAllocated>>
ctlVars == <<live, succeeded, router, createEvt, phaseEvt, flow, joinTasks, activeSleep, sweep>>
watchVars == <<wstate, lease, whandler, wflow, wjoin, wsweep>>
harness == <<naming, calls, locking, patching, labeling>>
vars == <<envVars, records, uids, ctlVars, watchVars, harness>>


\* a condition is <<status, reason>>; Unset: the list holds none of that type
Unset == <<"Unset", "">>
CondTrue == <<"True", "">>
CondFalse(reason) == <<"False", reason>>

\* "No VM" and "no timestamp" for the optional status fields
NoVm == [node |-> None, ts |-> 0 - 1]
NoTime == 0 - 1

\* ------------------------------------------------- crd/nodefailover.py
\* The object create() sends: metadata.name is the lowercased node name,
\* status is Pending, no attempts, no conditions.  uid is the identity the
\* API server gives the object.
NewRecord(n, uid) ==
    [uid |-> uid, name |-> Lower(n), onprem |-> n, phase |-> PENDING,
     vm |-> NoVm, recAt |-> NoTime, attempts |-> 0, lastError |-> None,
     conds |-> [t \in ConditionType |-> Unset]]

\* get(): the object named Lower(n), or none (404)
Has(recs, n) == \E r \in recs : r.name = Lower(n)
Get(recs, n) == CHOOSE r \in recs : r.name = Lower(n)

\* create() against a store that takes a second object of the same name
crd_create_no_conflict(recs, n, uid) == recs \cup {NewRecord(n, uid)}

\* create(): the API server answers 409 when the name is taken, and create
\* then returns the existing object.
crd_create(recs, n, uid) ==
    IF Has(recs, n) THEN recs ELSE recs \cup {NewRecord(n, uid)}

\* delete() that leaves the object in the store
crd_delete_kept(recs, n) == recs

\* delete(): idempotent on 404
crd_delete(recs, n) == {r \in recs : r.name # Lower(n)}

\* update_status(): reads the object, overwrites the status fields that are
\* given, writes the status back.  patch is a record holding the given fields.
update_status(recs, n, patch) ==
    IF ~Has(recs, n) THEN recs
    ELSE LET r == Get(recs, n)
             w == [f \in DOMAIN r |-> IF f \in DOMAIN patch THEN patch[f] ELSE r[f]]
         IN  (recs \ {r}) \cup {w}

\* set_condition(): drops the condition of that type, appends the new one
set_condition(recs, n, type, status) ==
    IF ~Has(recs, n) THEN recs
    ELSE LET r == Get(recs, n)
         IN  (recs \ {r}) \cup {[r EXCEPT !.conds[type] = status]}

\* get_condition()
get_condition(recs, n, type) ==
    IF Has(recs, n) THEN Get(recs, n).conds[type] ELSE Unset

\* ------------------------------------------------------ kopf triggers
\* crd/nodefailover.py: the API group the NodeFailover objects are created in
GROUP == "failover.k8s.io"

\* nodefailover_handler.py: the API group on_nodefailover_create and
\* on_phase_change are registered for
HandlerGroup == "failover.operator.io"

\* kopf calls a handler for the events of the resource it is registered for
Delivers(resourceGroup, handlerGroup) == resourceGroup = handlerGroup

\* Record-creation events: an object whose uid was not there before.
Created(old, new) == {r.uid : r \in new} \ {r.uid : r \in old} # {}

\* status.phase changes to a phase that has a handler (on_phase_change)
ChangedTo(old, new) ==
    {p \in {ACTIVE, RECOVERING} :
        \E r \in new : /\ r.phase = p
                       /\ \A o \in old : o.uid = r.uid => o.phase # p}

\* the next uid; record creation stops at MaxRecords objects
MaxRecords == 2
NextUid == uids + 1

\* Write the records and post the events the write causes to every running
\* replica;
\* ce and pe are the pending events after the acting handler took its own.
Commit(new, ce, pe) ==
    /\ records' = new
    /\ createEvt' = [r \in Replicas |->
                        ce[r] \/ (r \in live /\ Created(records, new))]
    /\ phaseEvt' = [r \in Replicas |->
                       IF r \in live THEN pe[r] \cup ChangedTo(records, new)
                       ELSE pe[r]]
    /\ uids' = IF Created(records, new) THEN uids + 1 ELSE uids

\* --------------------------------------------------- k8s/client.py
\* apply_out_of_service_taint() and remove_node_taint() when they succeed:
\* the handlers call them, k8s/client.py does not define them.  taints is the
\* set of on-premise nodes that carry node.kubernetes.io/out-of-service.
apply_out_of_service_taint(taints, n) == taints \cup {n}
remove_node_taint(taints, n) == taints \ {n}

\* ------------------------------------------------- the environment
\* A second passes.
Tick ==
    /\ now < MaxTime
    /\ now' = now + 1
    /\ UNCHANGED <<ready, oosTaint, cloud, knodes, cordoned, drainTaint, gsAllocated,
                   records, uids, ctlVars>>
    /\ UNCHANGED <<watchVars, harness>>

\* The on-premise node stops reporting Ready.
NodeFails(n) ==
    /\ ready[n]
    /\ ready' = [ready EXCEPT ![n] = FALSE]
    /\ UNCHANGED <<now, oosTaint, cloud, knodes, cordoned, drainTaint, gsAllocated,
                   records, uids, ctlVars>>
    /\ UNCHANGED <<watchVars, harness>>

\* The on-premise node reports Ready again.
NodeRecovers(n) ==
    /\ ~ready[n]
    /\ ready' = [ready EXCEPT ![n] = TRUE]
    /\ UNCHANGED <<now, oosTaint, cloud, knodes, cordoned, drainTaint, gsAllocated,
                   records, uids, ctlVars>>
    /\ UNCHANGED <<watchVars, harness>>

\* The kubelet of a running VM registers its node object (the startup
\* script's kubeadm join).
VmJoins(vm) ==
    /\ vm \in cloud \ knodes
    /\ knodes' = knodes \cup {vm}
    /\ UNCHANGED <<now, ready, oosTaint, cloud, cordoned, drainTaint, gsAllocated,
                   records, uids, ctlVars>>
    /\ UNCHANGED <<watchVars, harness>>

\* Agones allocates a GameServer that runs on the substitute.
Allocate(vm) ==
    /\ vm \in knodes
    /\ vm \in cloud
    /\ gsAllocated[vm] < MaxAllocated
    /\ gsAllocated' = [gsAllocated EXCEPT ![vm] = @ + 1]
    /\ UNCHANGED <<now, ready, oosTaint, cloud, knodes, cordoned, drainTaint,
                   records, uids, ctlVars>>
    /\ UNCHANGED <<watchVars, harness>>

\* An allocated session ends.
Deallocate(vm) ==
    /\ gsAllocated[vm] > 0
    /\ gsAllocated' = [gsAllocated EXCEPT ![vm] = @ - 1]
    /\ UNCHANGED <<now, ready, oosTaint, cloud, knodes, cordoned, drainTaint,
                   records, uids, ctlVars>>
    /\ UNCHANGED <<watchVars, harness>>

\* ------------------------------------------------ one event loop
\* Replica r is between two API calls of a stretch of code that has no await
\* (the router between its get and its write; create_failover_vm between its
\* read, lines 71-79, and its write, line 88): no other coroutine of the same
\* process runs, other replicas and the environment do.
Busy(r) == flow[r].pc = "cfv_inc" \/ router[r].op # "idle"

\* ------------------------------------ handlers/node_event_handler.py
IdleRouter == [op |-> "idle", n |-> None]

\* a router that replaces whatever record it finds for an unready node
RouterOpNoPhaseCheck(recs, n, isReady) ==
    IF ~isReady
    THEN IF Has(recs, n) THEN "recreate" ELSE "create"
    ELSE IF Has(recs, n) /\ Get(recs, n).phase \notin {RECOVERING, DRAINING, COMPLETED}
         THEN "recover"
         ELSE "idle"

\* the router deleting every record whose cycle is past Recovering
RouterOpRecreateDraining(recs, n, isReady) ==
    IF ~isReady
    THEN IF Has(recs, n)
         THEN IF Get(recs, n).phase \in {DRAINING, COMPLETED} THEN "recreate" ELSE "idle"
         ELSE "create"
    ELSE IF Has(recs, n) /\ Get(recs, n).phase \notin {RECOVERING, DRAINING, COMPLETED}
         THEN "recover"
         ELSE "idle"

\* on_node_event, lines 21-42 and 57-69: what the router decides from the
\* event's readiness and the record it reads.
RouterOp(recs, n, isReady) ==
    IF ~isReady
    THEN IF Has(recs, n)
         THEN IF Get(recs, n).phase = COMPLETED THEN "recreate" ELSE "idle"
         ELSE "create"
    ELSE IF Has(recs, n) /\ Get(recs, n).phase \notin {RECOVERING, DRAINING, COMPLETED}
         THEN "recover"
         ELSE "idle"

\* on_node_event, lines 39, 55 and 73-80: the writes of the decision.
RouterWrite(recs, op, n, uid, t) ==
    CASE op = "create" -> crd_create(recs, n, uid)
      [] op = "recreate" -> crd_create(crd_delete(recs, n), n, uid)
      [] op = "recover" ->
            set_condition(
              update_status(recs, n, [phase |-> RECOVERING, recAt |-> t]),
              n, ONPREM_RECOVERED, CondTrue)
      [] OTHER -> recs

\* the router run without anything in between
RouterResult(recs, n, isReady, uid, t) ==
    RouterWrite(recs, RouterOp(recs, n, isReady), n, uid, t)

\* on_node_event, lines 39 and 55: the calls one run makes for an unready
\* event after its crd.get, in their order.
RouterCalls(op) ==
    CASE op = "recreate" -> <<"delete", "create">>
      [] op = "create" -> <<"create">>
      [] OTHER -> <<>>

\* one of those calls against the store
RouterCall(recs, call, n, uid) ==
    IF call = "delete" THEN crd_delete(recs, n) ELSE crd_create(recs, n, uid)

\* Two replicas handling the same unready event of node n, each in its own
\* process: the first has read the record and has the calls c1 left, the
\* second (c2, once read2 holds) reads at any point in between.  The set of
\* stores the two runs can leave behind; uid is the next uid of the server.
RECURSIVE RouterRuns(_, _, _, _, _, _)
RouterRuns(recs, n, c1, read2, c2, uid) ==
    LET after(call) == RouterCall(recs, call, n, uid)
        next(call) == IF Created(recs, after(call)) THEN uid + 1 ELSE uid
    IN  IF c1 = <<>> /\ read2 /\ c2 = <<>>
        THEN {recs}
        ELSE UNION {
               IF c1 # <<>>
               THEN RouterRuns(after(Head(c1)), n, Tail(c1), read2, c2, next(Head(c1)))
               ELSE {},
               IF ~read2
               THEN RouterRuns(recs, n, c1, TRUE,
                               RouterCalls(RouterOp(recs, n, FALSE)), uid)
               ELSE {},
               IF read2 /\ c2 # <<>>
               THEN RouterRuns(after(Head(c2)), n, c1, TRUE, Tail(c2), next(Head(c2)))
               ELSE {} }

\* record creations that routers have decided and not yet sent
PendingCreates == Cardinality({q \in Replicas : router[q].op \in {"create", "recreate"}})

\* on_node_event up to the answer of crd.get: a node event that reports the
\* readiness ready[n] reaches replica r.
on_node_event(r, n) ==
    /\ r \in live
    /\ ~Busy(r)
    /\ LET op == RouterOp(records, n, ready[n])
       IN  /\ op \in {"create", "recreate"} => uids + PendingCreates < MaxRecords
           /\ router' = [router EXCEPT ![r] = [op |-> op, n |-> IF op = "idle" THEN None ELSE n]]
    /\ UNCHANGED <<envVars, records, uids, live, succeeded, createEvt, phaseEvt, flow,
                   joinTasks, activeSleep, sweep>>
    /\ UNCHANGED <<watchVars, harness>>

\* on_node_event from there on: delete, create, or the recovery writes
router_write(r) ==
    /\ router[r].op # "idle"
    /\ Commit(RouterWrite(records, router[r].op, router[r].n, NextUid, now),
              createEvt, phaseEvt)
    /\ router' = [router EXCEPT ![r] = IdleRouter]
    /\ UNCHANGED <<envVars, live, succeeded, flow, joinTasks, activeSleep, sweep>>
    /\ UNCHANGED <<watchVars, harness>>

\* ------------------------------------ handlers/nodefailover_handler.py
\* The events of the NodeFailover objects as kopf dispatches them: the
\* handlers are registered for HandlerGroup, the objects live in GROUP, and an
\* event of a resource that has no handler is dropped.
kopf_dispatch(r) ==
    /\ r \in live
    /\ createEvt[r] \/ phaseEvt[r] # {}
    /\ ~Delivers(GROUP, HandlerGroup)
    /\ createEvt' = [createEvt EXCEPT ![r] = FALSE]
    /\ phaseEvt' = [phaseEvt EXCEPT ![r] = {}]
    /\ UNCHANGED <<envVars, records, uids, live, succeeded, router, flow, joinTasks,
                   activeSleep, sweep, watchVars, harness>>

IdleFlow == [pc |-> "idle", n |-> None, att |-> 0, vm |-> NoVm]

\* on_nodefailover_create, up to its grace sleep
on_nodefailover_create(r, n) ==
    /\ ~Busy(r)
    /\ createEvt[r]
    /\ flow[r].pc = "idle"
    /\ createEvt' = [createEvt EXCEPT ![r] = FALSE]
    /\ flow' = [flow EXCEPT ![r] = [IdleFlow EXCEPT !.pc = "grace", !.n = n]]
    /\ UNCHANGED <<envVars, records, uids, live, succeeded, router, phaseEvt, joinTasks,
                   activeSleep, sweep>>
    /\ UNCHANGED <<watchVars, harness>>

\* create_failover_vm entered without the check of lines 79-85
CfvEntryNoCap(r, n) ==
    IF ~Has(records, n)
    THEN /\ flow' = [flow EXCEPT ![r] = IdleFlow]
         /\ UNCHANGED <<records, uids, createEvt, phaseEvt>>
    ELSE /\ flow' = [flow EXCEPT ![r].pc = "cfv_inc", ![r].n = n,
                                 ![r].att = Get(records, n).attempts,
                                 ![r].vm = NoVm]
         /\ UNCHANGED <<records, uids, createEvt, phaseEvt>>

\* create_failover_vm, lines 71-85: read the record, stop when it is gone or
\* when the attempts are used up; otherwise go on with the attempts read.
CfvEntry(r, n) ==
    IF ~Has(records, n)
    THEN /\ flow' = [flow EXCEPT ![r] = IdleFlow]
         /\ UNCHANGED <<records, uids, createEvt, phaseEvt>>
    ELSE IF Get(records, n).attempts >= MAX_VM_CREATION_ATTEMPTS
    THEN /\ flow' = [flow EXCEPT ![r] = IdleFlow]
         /\ Commit(update_status(records, n, [lastError |-> "max-attempts"]),
                   createEvt, phaseEvt)
    ELSE /\ flow' = [flow EXCEPT ![r].pc = "cfv_inc", ![r].n = n,
                                 ![r].att = Get(records, n).attempts,
                                 ![r].vm = NoVm]
         /\ UNCHANGED <<records, uids, createEvt, phaseEvt>>

\* on_nodefailover_create after the grace sleep: the node recovered (mark
\* Completed), or create_failover_vm is entered.
grace_expired(r) ==
    /\ ~Busy(r)
    /\ flow[r].pc = "grace"
    /\ IF ready[flow[r].n]
       THEN /\ flow' = [flow EXCEPT ![r] = IdleFlow]
            /\ Commit(update_status(records, flow[r].n, [phase |-> COMPLETED]),
                      createEvt, phaseEvt)
       ELSE CfvEntry(r, flow[r].n)
    /\ UNCHANGED <<live, succeeded, router, envVars, joinTasks, activeSleep, sweep>>
    /\ UNCHANGED <<watchVars, harness>>

\* create_failover_vm, lines 171-192: the except branch.  Records the error
\* and retries after a back-off while the attempts read back are below the cap.
ExceptResult(recs, n) ==
    set_condition(update_status(recs, n, [lastError |-> "create-failed"]),
                  n, VM_CREATED, CondFalse("CreationFailed"))

ExceptRetries(recs, n) ==
    Has(recs, n) /\ Get(recs, n).attempts < MAX_VM_CREATION_ATTEMPTS

\* gcp list_instances(): the instances of the project's zone (called at line
\* 100; gcp/compute.py does not define it)
list_instances == cloud

\* lines 94-104: the listed instances whose name starts with the prefix
\* "gcp-temp-<node>"
Matching(n) == {vm \in list_instances : vm.node = n}

\* generate_vm_name at the current second
generate_vm_name(n, t) == [node |-> n, ts |-> t]

\* create_failover_vm, lines 88-153: write attempts + 1 and phase Creating
\* (written: the write took effect; its result is not looked at), adopt a VM
\* the cloud already lists for the node, or prepare the create call (bootstrap
\* token, CA hash), which may fail, and call create_instance.
cfv_step(r, written) ==
    /\ flow[r].pc = "cfv_inc"
    /\ LET n == flow[r].n
           recs1 == IF written
                    THEN update_status(records, n,
                           [attempts |-> flow[r].att + 1, phase |-> CREATING])
                    ELSE records
       IN  IF Matching(n) # {}
           THEN \E vm \in Matching(n) :
                  /\ Commit(set_condition(update_status(recs1, n, [vm |-> vm]),
                                          n, VM_CREATED, CondTrue),
                            createEvt, phaseEvt)
                  /\ joinTasks' = [joinTasks EXCEPT ![r] = @ \cup {vm}]
                  /\ flow' = [flow EXCEPT ![r] = IdleFlow]
           ELSE \/ /\ Commit(recs1, createEvt, phaseEvt)
                   /\ flow' = [flow EXCEPT ![r].pc = "creating",
                                           ![r].vm = generate_vm_name(n, now)]
                   /\ UNCHANGED joinTasks
                \/ /\ Commit(ExceptResult(recs1, n), createEvt, phaseEvt)
                   /\ flow' = [flow EXCEPT ![r].pc =
                                 IF ExceptRetries(ExceptResult(recs1, n), n)
                                 THEN "backoff" ELSE "idle"]
                   /\ UNCHANGED joinTasks
    /\ UNCHANGED <<live, succeeded, router, envVars, activeSleep, sweep>>
    /\ UNCHANGED <<watchVars, naming, locking, patching, labeling>>

cfv_inc(r) == cfv_step(r, TRUE) /\ UNCHANGED calls

\* the step counted: one more create_instance call for the record when the
\* step makes the call
CountCall(r) ==
    calls' = IF flow'[r].pc = "creating" /\ Has(records, flow[r].n)
             THEN [calls EXCEPT ![Get(records, flow[r].n).uid] = @ + 1]
             ELSE calls

cfv_inc_counted(r) == cfv_step(r, TRUE) /\ CountCall(r)

\* the status write of line 88 fails with an API error: update_status logs it
\* and returns False.  The calls are followed to one past the cap.
cfv_inc_write_fails(r) ==
    /\ Has(records, flow[r].n)
        => calls[Get(records, flow[r].n).uid] <= MAX_VM_CREATION_ATTEMPTS
    /\ cfv_step(r, FALSE)
    /\ CountCall(r)

\* gcp/compute.py create_instance returns: the insert succeeded, or it failed
\* (with or without leaving the instance behind).  A name the cloud already
\* holds is refused.
create_done(r) ==
    /\ ~Busy(r)
    /\ flow[r].pc = "creating"
    /\ LET n == flow[r].n
           vm == flow[r].vm
       IN  \/ /\ vm \notin cloud
              /\ cloud' = cloud \cup {vm}
              /\ Commit(set_condition(update_status(records, n, [vm |-> vm]),
                                      n, VM_CREATED, CondTrue),
                        createEvt, phaseEvt)
              /\ joinTasks' = [joinTasks EXCEPT ![r] = @ \cup {vm}]
              /\ flow' = [flow EXCEPT ![r] = IdleFlow]
              /\ succeeded' = IF Has(records, n)
                               THEN succeeded \cup {[uid |-> Get(records, n).uid, vm |-> vm]}
                               ELSE succeeded
           \/ /\ cloud' \in {cloud, cloud \cup {vm}}
              /\ UNCHANGED succeeded
              /\ Commit(ExceptResult(records, n), createEvt, phaseEvt)
              /\ flow' = [flow EXCEPT ![r].pc =
                            IF ExceptRetries(ExceptResult(records, n), n)
                            THEN "backoff" ELSE "idle"]
              /\ UNCHANGED joinTasks
    /\ UNCHANGED <<now, live, router, ready, oosTaint, knodes, cordoned, drainTaint, gsAllocated,
                   activeSleep, sweep>>
    /\ UNCHANGED <<watchVars, harness>>

\* the back-off sleep ends: create_failover_vm again
backoff_expired(r) ==
    /\ ~Busy(r)
    /\ flow[r].pc = "backoff"
    /\ CfvEntry(r, flow[r].n)
    /\ UNCHANGED <<live, succeeded, router, envVars, joinTasks, activeSleep, sweep>>
    /\ UNCHANGED <<watchVars, harness>>

\* wait_for_node_join: the node joined and is labeled (or labeling failed),
\* or the wait timed out.
wait_for_node_join(r, vm) ==
    /\ ~Busy(r)
    /\ vm \in joinTasks[r]
    /\ joinTasks' = [joinTasks EXCEPT ![r] = @ \ {vm}]
    /\ LET n == vm.node
       IN  IF vm \in knodes
           THEN \/ Commit(update_status(
                            set_condition(records, n, NODE_JOINED, CondTrue),
                            n, [phase |-> ACTIVE]),
                          createEvt, phaseEvt)
                \/ Commit(set_condition(records, n, NODE_JOINED,
                                        CondFalse("LabelingFailed")),
                          createEvt, phaseEvt)
           ELSE Commit(set_condition(records, n, NODE_JOINED,
                                     CondFalse("JoinTimeout")),
                       createEvt, phaseEvt)
    /\ UNCHANGED <<live, succeeded, router, envVars, flow, activeSleep, sweep>>
    /\ UNCHANGED <<watchVars, harness>>

\* on_phase_change, new = Active: handle_active_phase up to its grace sleep
on_phase_active(r) ==
    /\ ~Busy(r)
    /\ ACTIVE \in phaseEvt[r]
    /\ ~activeSleep[r]
    /\ phaseEvt' = [phaseEvt EXCEPT ![r] = @ \ {ACTIVE}]
    /\ activeSleep' = [activeSleep EXCEPT ![r] = TRUE]
    /\ UNCHANGED <<envVars, records, uids, live, succeeded, router, createEvt, flow, joinTasks,
                   sweep>>
    /\ UNCHANGED <<watchVars, harness>>

\* handle_active_phase after the sleep: the node is ready (Recovering), or
\* the out-of-service taint is applied (which may fail).
handle_active_phase(r, n) ==
    /\ ~Busy(r)
    /\ activeSleep[r]
    /\ activeSleep' = [activeSleep EXCEPT ![r] = FALSE]
    /\ IF ready[n]
       THEN /\ Commit(set_condition(
                        update_status(records, n,
                                      [phase |-> RECOVERING, recAt |-> now]),
                        n, ONPREM_RECOVERED, CondTrue),
                      createEvt, phaseEvt)
            /\ UNCHANGED oosTaint
       ELSE \/ /\ oosTaint' = apply_out_of_service_taint(oosTaint, n)
               /\ Commit(set_condition(records, n, TAINT_APPLIED, CondTrue),
                         createEvt, phaseEvt)
            \/ /\ UNCHANGED oosTaint
               /\ Commit(set_condition(records, n, TAINT_APPLIED,
                                       CondFalse("TaintFailed")),
                         createEvt, phaseEvt)
    /\ UNCHANGED <<now, live, succeeded, router, ready, cloud, knodes, cordoned, drainTaint, gsAllocated,
                   flow, joinTasks, sweep>>
    /\ UNCHANGED <<watchVars, harness>>

\* on_phase_change, new = Recovering: handle_recovering_phase removes the
\* out-of-service taint (which may fail) and writes phase Draining.
handle_recovering_phase(r, n) ==
    /\ ~Busy(r)
    /\ RECOVERING \in phaseEvt[r]
    /\ oosTaint' \in {remove_node_taint(oosTaint, n), oosTaint}
    /\ Commit(update_status(records, n, [phase |-> DRAINING]),
              createEvt, [phaseEvt EXCEPT ![r] = @ \ {RECOVERING}])
    /\ UNCHANGED <<now, live, succeeded, router, ready, cloud, knodes, cordoned, drainTaint, gsAllocated,
                   flow, joinTasks, activeSleep, sweep>>
    /\ UNCHANGED <<watchVars, harness>>

\* --------------------------------------- handlers/reconciliation.py
IdleSweep == [pc |-> "idle", n |-> None, vm |-> NoVm]

\* k8s/client.py count_gameserver_pods_on_node: the Allocated GameServers
\* whose status.nodeName is the node, or 999 when the listing fails.
COUNT_ERROR == 999
\* a count that swallows the API error and reports no GameServer
count_error_as_zero(vm, listed) ==
    IF listed THEN gsAllocated[vm] ELSE 0

count_gameserver_pods_on_node(vm, listed) ==
    IF listed THEN gsAllocated[vm] ELSE COUNT_ERROR
CountResults(vm) == {count_gameserver_pods_on_node(vm, listed) : listed \in BOOLEAN}

\* GAMESERVER_MAX_WAIT_HOURS * 3600, in clock readings: a reading later than
\* the recovery time is past the limit.
GAMESERVER_MAX_WAIT_SECONDS == 0

\* a sweep that gives up waiting: past the limit it cleans up whatever the count
CleanupDecisionForced(count, recAt, t) ==
    IF count = 0 \/ (recAt # NoTime /\ t - recAt > GAMESERVER_MAX_WAIT_SECONDS)
    THEN "cleanup"
    ELSE IF recAt = NoTime THEN "none" ELSE "wait"

\* what a sweep does with a substitute that is a cluster node, given the count
\* it read, the recovery time it holds and the clock: the cleanup on a count
\* of 0; else a log line ("error" past the limit, "wait" before it), or
\* nothing when no recovery time is held.
CleanupDecision(count, recAt, t) ==
    IF count = 0
    THEN "cleanup"
    ELSE IF recAt = NoTime
         THEN "none"
         ELSE IF t - recAt > GAMESERVER_MAX_WAIT_SECONDS
              THEN "error"
              ELSE "wait"

\* a VM leaves the cloud; the GameServers that ran on it are gone with it
DeleteVm(vm) ==
    /\ cloud' = cloud \ {vm}
    /\ gsAllocated' = [gsAllocated EXCEPT ![vm] = 0]

\* _cleanup_draining_vms on one Draining record that names a VM, up to its
\* first await.  listed: the GameServer listing succeeds.
sweep_record(r, rec, listed) ==
    LET n == rec.onprem
        vm == rec.vm
    IN  IF vm \notin knodes
        THEN IF vm \in cloud
             THEN /\ sweep' = [sweep EXCEPT ![r] =
                                 [pc |-> "orphan_delete", n |-> n, vm |-> vm]]
                  /\ UNCHANGED <<records, uids, createEvt, phaseEvt, cordoned, drainTaint>>
             ELSE /\ Commit(update_status(records, n, [phase |-> COMPLETED]),
                            createEvt, phaseEvt)
                  /\ UNCHANGED <<sweep, cordoned, drainTaint>>
        ELSE LET count == count_gameserver_pods_on_node(vm, listed)
             IN  IF CleanupDecision(count, rec.recAt, now) = "cleanup"
                 THEN /\ Commit(set_condition(records, n,
                                              GAMESERVERS_DRAINED, CondTrue),
                                createEvt, phaseEvt)
                      /\ cordoned' = cordoned \cup {vm}
                      /\ UNCHANGED drainTaint
                      /\ sweep' = [sweep EXCEPT ![r] =
                                     [pc |-> "drain_sleep", n |-> n, vm |-> vm]]
                 ELSE UNCHANGED <<records, uids, createEvt, phaseEvt,
                                  cordoned, drainTaint, sweep>>

\* _cleanup_draining_vms, one record of the listing, up to its first await:
\* only a Draining record that names a VM is looked at.
sweep_start(r) ==
    /\ r \in live
    /\ ~Busy(r)
    /\ sweep[r].pc = "idle"
    /\ \E rec \in records, listed \in BOOLEAN :
        /\ rec.phase = DRAINING
        /\ rec.vm # NoVm
        /\ sweep_record(r, rec, listed)
    /\ UNCHANGED <<now, live, succeeded, router, ready, oosTaint, cloud, knodes, gsAllocated,
                   flow, joinTasks, activeSleep>>
    /\ UNCHANGED <<watchVars, harness>>

\* the node object was gone: delete_instance returns (its result is not
\* looked at), then phase Completed is written.
sweep_orphan_deleted(r) ==
    /\ ~Busy(r)
    /\ sweep[r].pc = "orphan_delete"
    /\ \/ /\ DeleteVm(sweep[r].vm)
          /\ succeeded' = {s \in succeeded : s.vm # sweep[r].vm}
       \/ UNCHANGED <<cloud, gsAllocated, succeeded>>
    /\ Commit(update_status(records, sweep[r].n, [phase |-> COMPLETED]),
              createEvt, phaseEvt)
    /\ sweep' = [sweep EXCEPT ![r] = IdleSweep]
    /\ UNCHANGED <<now, live, router, ready, oosTaint, knodes, cordoned, drainTaint,
                   flow, joinTasks, activeSleep>>
    /\ UNCHANGED <<watchVars, harness>>

\* after the 10 s sleep: delete the node object, then delete the VM if the
\* cloud still has it, else write Completed.
sweep_delete_node(r) ==
    /\ ~Busy(r)
    /\ sweep[r].pc = "drain_sleep"
    /\ knodes' = knodes \ {sweep[r].vm}
    /\ cordoned' = cordoned \ {sweep[r].vm}
    /\ drainTaint' = drainTaint \ {sweep[r].vm}
    /\ IF sweep[r].vm \in cloud
       THEN /\ sweep' = [sweep EXCEPT ![r].pc = "deleting"]
            /\ UNCHANGED <<records, uids, createEvt, phaseEvt>>
       ELSE /\ sweep' = [sweep EXCEPT ![r] = IdleSweep]
            /\ Commit(update_status(records, sweep[r].n, [phase |-> COMPLETED]),
                      createEvt, phaseEvt)
    /\ UNCHANGED <<now, live, succeeded, router, ready, oosTaint, cloud, gsAllocated,
                   flow, joinTasks, activeSleep>>
    /\ UNCHANGED <<watchVars, harness>>

\* delete_instance returns: on success Completed is written, on failure
\* nothing is.
sweep_vm_deleted(r) ==
    /\ ~Busy(r)
    /\ sweep[r].pc = "deleting"
    /\ \/ /\ DeleteVm(sweep[r].vm)
          /\ succeeded' = {s \in succeeded : s.vm # sweep[r].vm}
          /\ Commit(update_status(records, sweep[r].n, [phase |-> COMPLETED]),
                    createEvt, phaseEvt)
       \/ UNCHANGED <<cloud, gsAllocated, succeeded, records, uids, createEvt,
                      phaseEvt>>
    /\ sweep' = [sweep EXCEPT ![r] = IdleSweep]
    /\ UNCHANGED <<now, live, router, ready, oosTaint, knodes, cordoned, drainTaint,
                   flow, joinTasks, activeSleep>>
    /\ UNCHANGED <<watchVars, harness>>

\* reconstruct_state for one on-premise node: the records after the pass and
\* whether the pass applied the out-of-service taint.  taintOk: the taint
\* call succeeds.
ReconstructTaints(recs, n, isReady, vms, taintOk) ==
    /\ ~isReady
    /\ taintOk
    /\ IF Has(recs, n)
       THEN /\ Get(recs, n).phase = ACTIVE
            /\ Get(recs, n).conds[TAINT_APPLIED][1] # "True"
       ELSE vms # {}

ReconstructResult(recs, n, isReady, vms, vm, taintOk, uid, t) ==
    IF Has(recs, n)
    THEN LET phase == Get(recs, n).phase
             recs1 == IF ReconstructTaints(recs, n, isReady, vms, taintOk)
                      THEN set_condition(recs, n, TAINT_APPLIED, CondTrue)
                      ELSE recs
         IN  IF phase = COMPLETED THEN recs
             ELSE IF isReady /\ phase \notin {RECOVERING, DRAINING, COMPLETED}
             THEN set_condition(
                    update_status(recs1, n, [phase |-> RECOVERING, recAt |-> t]),
                    n, ONPREM_RECOVERED, CondTrue)
             ELSE recs1
    ELSE IF vms # {}
    THEN LET recs1 == crd_create(recs, n, uid)
             recs2 == update_status(recs1, n, [phase |-> ACTIVE, vm |-> vm])
             recs3 == set_condition(recs2, n, VM_CREATED, CondTrue)
             recs4 == set_condition(recs3, n, NODE_JOINED, CondTrue)
         IN  IF ReconstructTaints(recs, n, isReady, vms, taintOk)
             THEN set_condition(recs4, n, TAINT_APPLIED, CondTrue)
             ELSE recs4
    ELSE IF ~isReady THEN crd_create(recs, n, uid)
    ELSE recs

\* on_startup of a restarted replica: its tasks are gone with the old
\* process, reconstruct_state runs, the periodic loop starts.
on_startup(r, n) ==
    /\ r \in live
    /\ \E taintOk \in BOOLEAN :
       \E vm \in IF Matching(n) = {} THEN {NoVm} ELSE Matching(n) :
         LET new == ReconstructResult(records, n, ready[n], Matching(n), vm,
                                      taintOk, NextUid, now)
         IN  /\ Created(records, new) => uids + PendingCreates < MaxRecords
             /\ Commit(new, [createEvt EXCEPT ![r] = FALSE],
                            [phaseEvt EXCEPT ![r] = {}])
             /\ oosTaint' = IF ReconstructTaints(records, n, ready[n],
                                                 Matching(n), taintOk)
                            THEN apply_out_of_service_taint(oosTaint, n)
                            ELSE oosTaint
    /\ router' = [router EXCEPT ![r] = IdleRouter]
    /\ flow' = [flow EXCEPT ![r] = IdleFlow]
    /\ joinTasks' = [joinTasks EXCEPT ![r] = {}]
    /\ activeSleep' = [activeSleep EXCEPT ![r] = FALSE]
    /\ sweep' = [sweep EXCEPT ![r] = IdleSweep]
    /\ UNCHANGED <<now, live, succeeded, ready, cloud, knodes, cordoned, drainTaint, gsAllocated>>
    /\ UNCHANGED <<watchVars, harness>>

\* -------------------------------------------------------- state.py
\* NodeFailoverState of one node in one replica's StateManager; exists is
\* "the node is a key of _failed_nodes".
NoState == [exists |-> FALSE, created |-> FALSE, vm |-> NoVm, attempts |-> 0,
            recAt |-> FALSE, taint |-> FALSE, error |-> FALSE]

add_failed_node(st) ==
    IF st.exists THEN st ELSE [NoState EXCEPT !.exists = TRUE]

update_vm_created(st, vm) ==
    IF st.exists THEN [st EXCEPT !.vm = vm, !.created = TRUE] ELSE st

update_recovery_detected(st) ==
    IF st.exists THEN [st EXCEPT !.recAt = TRUE] ELSE st

update_taint_applied(st) ==
    IF st.exists THEN [st EXCEPT !.taint = TRUE] ELSE st

increment_vm_creation_attempts(st) ==
    IF st.exists THEN [st EXCEPT !.attempts = @ + 1] ELSE st

set_error(st) ==
    IF st.exists THEN [st EXCEPT !.error = TRUE] ELSE st

remove_node(st) == NoState

\* ------------------------------------------------------ k8s/lock.py
\* The Lease: its holderIdentity (None: no Lease object) and whether less
\* than leaseDurationSeconds have passed since its renewTime.
NoLease == [holder |-> None, fresh |-> FALSE]

\* acquire_lock returns True within its timeout: no Lease (create), an
\* expired Lease (replace), or a fresh Lease of this holder.
CanAcquire(r) ==
    \/ lease.holder = None
    \/ ~lease.fresh
    \/ lease.holder = r

\* the Lease after acquire_lock returned True to r; a fresh Lease of r is
\* left as it is (renewTime is not touched)
Acquired(r) ==
    IF lease.holder = r /\ lease.fresh THEN lease
    ELSE [holder |-> r, fresh |-> TRUE]

\* leaseDurationSeconds (15 s) pass without a write to the Lease; nothing
\* renews it.
LeaseExpires ==
    /\ lease.holder # None
    /\ lease.fresh
    /\ lease' = [lease EXCEPT !.fresh = FALSE]
    /\ UNCHANGED <<envVars, records, uids, ctlVars, harness, wstate, whandler, wflow, wjoin, wsweep>>

\* ------------------------------------------ handlers/node_watcher.py
IdleHandler == [pc |-> "idle", n |-> None, vm |-> NoVm]
IdleWFlow == [pc |-> "idle", n |-> None, vm |-> NoVm, nested |-> FALSE]

\* replica r is between a successful acquire_lock and its release_lock
InLock(r) == wflow[r].pc \in {"creating", "backoff"}

\* on_node_event, lines 62-140, up to its first await.  kopf hands the
\* events of one node to the handler one after the other.
w_on_node_event(r, n) ==
    /\ r \in live
    /\ whandler[r].pc = "idle"
    /\ LET st == wstate[r][n]
       IN  IF ~ready[n]
           THEN IF ~st.exists
                THEN /\ whandler' = [whandler EXCEPT ![r] =
                                        [pc |-> "grace", n |-> n, vm |-> NoVm]]
                     /\ UNCHANGED <<wstate, knodes, cordoned, drainTaint, oosTaint>>
                ELSE IF st.recAt
                THEN IF st.vm # NoVm /\ st.vm \in cloud
                     THEN /\ knodes' = knodes \ {st.vm}
                          /\ cordoned' = cordoned \ {st.vm}
                          /\ drainTaint' = drainTaint \ {st.vm}
                          /\ whandler' = [whandler EXCEPT ![r] =
                                  [pc |-> "deleting", n |-> n, vm |-> st.vm]]
                          /\ UNCHANGED <<wstate, oosTaint>>
                     ELSE /\ knodes' = knodes \ {st.vm}
                          /\ cordoned' = cordoned \ {st.vm}
                          /\ drainTaint' = drainTaint \ {st.vm}
                          /\ wstate' = [wstate EXCEPT ![r][n] = remove_node(st)]
                          /\ whandler' = [whandler EXCEPT ![r] =
                                  [pc |-> "grace", n |-> n, vm |-> NoVm]]
                          /\ UNCHANGED oosTaint
                ELSE UNCHANGED <<wstate, whandler, knodes, cordoned, drainTaint, oosTaint>>
           ELSE IF st.exists /\ ~st.recAt
                THEN /\ wstate' = [wstate EXCEPT ![r][n] =
                                      update_recovery_detected(st)]
                     /\ oosTaint' \in IF st.taint
                                      THEN {remove_node_taint(oosTaint, n), oosTaint}
                                      ELSE {oosTaint}
                     /\ UNCHANGED <<whandler, knodes, cordoned, drainTaint>>
                ELSE UNCHANGED <<wstate, whandler, knodes, cordoned, drainTaint, oosTaint>>
    /\ UNCHANGED <<now, ready, cloud, gsAllocated, records, uids,
                   ctlVars, harness, lease, wflow, wjoin, wsweep>>

\* on_node_event, lines 105-111: delete_instance of the old VM returned (its
\* result is not looked at), the state is removed, the grace sleep begins.
w_old_vm_deleted(r) ==
    /\ whandler[r].pc = "deleting"
    /\ \/ DeleteVm(whandler[r].vm)
       \/ UNCHANGED <<cloud, gsAllocated>>
    /\ wstate' = [wstate EXCEPT ![r][whandler[r].n] = remove_node(@)]
    /\ whandler' = [whandler EXCEPT ![r].pc = "grace", ![r].vm = NoVm]
    /\ UNCHANGED <<now, ready, oosTaint, knodes, cordoned, drainTaint, records, uids,
                   ctlVars, harness, lease, wflow, wjoin, wsweep>>

\* on_node_event, lines 73-82 and 111-120: after the grace sleep the node is
\* registered and create_failover_vm is started as a task, unless the node is
\* ready again.
w_grace_expired(r) ==
    /\ whandler[r].pc = "grace"
    /\ whandler' = [whandler EXCEPT ![r] = IdleHandler]
    /\ LET n == whandler[r].n
       IN  IF ~ready[n]
           THEN /\ wflow[r].pc = "idle"
                /\ wstate' = [wstate EXCEPT ![r][n] = add_failed_node(@)]
                /\ wflow' = [wflow EXCEPT ![r] = [IdleWFlow EXCEPT
                                                    !.pc = "start", !.n = n]]
           ELSE UNCHANGED <<wstate, wflow>>
    /\ UNCHANGED <<envVars, records, uids, ctlVars, harness, lease, wjoin, wsweep>>

\* a run that returns without releasing what it holds
WExitHolding(r, took, nested) ==
    /\ wflow' = [wflow EXCEPT ![r] = IdleWFlow]
    /\ lease' = IF took \/ nested THEN Acquired(r) ELSE lease

\* How a run of create_failover_vm ends.  took: the run holds the lock and
\* releases it in its finally.  nested: the run was called from the except
\* branch of another run and returns into that one's finally, which releases
\* the lock as well.  release_lock deletes the Lease, whoever holds it.
WExit(r, took, nested) ==
    /\ wflow' = [wflow EXCEPT ![r] = IdleWFlow]
    /\ lease' = IF took \/ nested THEN NoLease ELSE lease

\* the except branch, lines 279-293: record the error, then sleep and call
\* create_failover_vm again while the attempts are below the cap.  held: the
\* Lease as the run left it.
WExcept(r, st, nested, held) ==
    /\ wstate' = [wstate EXCEPT ![r][wflow[r].n] = set_error(st)]
    /\ IF st.attempts < MAX_VM_CREATION_ATTEMPTS
       THEN /\ wflow' = [wflow EXCEPT ![r].pc = "backoff", ![r].vm = NoVm,
                                      ![r].nested = nested]
            /\ lease' = held
       ELSE WExit(r, TRUE, nested)

\* create_failover_vm, lines 156-265, up to the await of create_instance:
\* the checks, acquire_lock, the checks again, the attempt counter, the scan
\* for a VM of the node, the preparation of the create call (which may fail).
WCfvBody(r, nested) ==
    LET n == wflow[r].n
        st == wstate[r][n]
        st1 == increment_vm_creation_attempts(st)
    IN  IF ~st.exists \/ st.created \/ st.attempts >= MAX_VM_CREATION_ATTEMPTS
        THEN /\ WExit(r, FALSE, nested)
             /\ UNCHANGED wstate
        ELSE \/ /\ CanAcquire(r)
                /\ IF Matching(n) # {}
                   THEN \E vm \in Matching(n) :
                          /\ wstate' = [wstate EXCEPT ![r][n] =
                                           update_vm_created(st1, vm)]
                          /\ WExit(r, TRUE, nested)
                   ELSE \/ /\ wstate' = [wstate EXCEPT ![r][n] = st1]
                           /\ wflow' = [wflow EXCEPT ![r].pc = "creating",
                                          ![r].vm = generate_vm_name(n, now),
                                          ![r].nested = nested]
                           /\ lease' = Acquired(r)
                        \/ WExcept(r, st1, nested, Acquired(r))
             \/ /\ ~CanAcquire(r)
                /\ WExit(r, FALSE, nested)
                /\ UNCHANGED wstate

\* the task started by on_node_event runs
w_create_failover_vm(r) ==
    /\ wflow[r].pc = "start"
    /\ WCfvBody(r, FALSE)
    /\ UNCHANGED <<envVars, records, uids, ctlVars, harness, whandler, wjoin, wsweep>>

\* the back-off sleep ends: create_failover_vm is called from the except
\* branch, inside the try of the caller
w_backoff_expired(r) ==
    /\ wflow[r].pc = "backoff"
    /\ WCfvBody(r, TRUE)
    /\ UNCHANGED <<envVars, records, uids, ctlVars, harness, whandler, wjoin, wsweep>>

\* create_instance returned, lines 261-277: on success the state is updated
\* and _wait_and_label_node is started; on failure (with or without the
\* instance left behind) the except branch runs.
w_create_done(r) ==
    /\ wflow[r].pc = "creating"
    /\ LET n == wflow[r].n
           vm == wflow[r].vm
           st == wstate[r][n]
       IN  \/ /\ vm \notin cloud
              /\ cloud' = cloud \cup {vm}
              /\ wstate' = [wstate EXCEPT ![r][n] = update_vm_created(st, vm)]
              /\ wjoin' = [wjoin EXCEPT ![r] = @ \cup {[vm |-> vm, pc |-> "join"]}]
              /\ WExit(r, TRUE, wflow[r].nested)
           \/ /\ cloud' \in {cloud, cloud \cup {vm}}
              /\ WExcept(r, st, wflow[r].nested, lease)
              /\ UNCHANGED wjoin
    /\ UNCHANGED <<now, ready, oosTaint, knodes, cordoned, drainTaint, gsAllocated,
                   records, uids, ctlVars, harness, whandler>>
    /\ UNCHANGED wsweep

\* _wait_and_label_node, lines 307-329 and 355-369: the node joined and is
\* labeled, the grace sleep begins; or the wait timed out and the VM is
\* deleted (which may fail).
w_wait_and_label_node(r, t) ==
    /\ t \in wjoin[r]
    /\ t.pc = "join"
    /\ IF t.vm \in knodes
       THEN /\ wjoin' = [wjoin EXCEPT ![r] = (@ \ {t}) \cup {[t EXCEPT !.pc = "grace"]}]
            /\ UNCHANGED <<cloud, gsAllocated>>
       ELSE /\ wjoin' = [wjoin EXCEPT ![r] = @ \ {t}]
            /\ \/ DeleteVm(t.vm)
               \/ UNCHANGED <<cloud, gsAllocated>>
    /\ UNCHANGED <<now, ready, oosTaint, knodes, cordoned, drainTaint, records, uids,
                   ctlVars, harness, wstate, lease, whandler, wflow>>
    /\ UNCHANGED wsweep

\* _wait_and_label_node, lines 331-353: after the grace sleep the
\* out-of-service taint is applied (which may fail) if the on-premise node is
\* still not ready.
w_taint_after_grace(r, t) ==
    /\ t \in wjoin[r]
    /\ t.pc = "grace"
    /\ wjoin' = [wjoin EXCEPT ![r] = @ \ {t}]
    /\ LET n == t.vm.node
       IN  IF ~ready[n]
           THEN \/ /\ oosTaint' = apply_out_of_service_taint(oosTaint, n)
                   /\ wstate' = [wstate EXCEPT ![r][n] = update_taint_applied(@)]
                \/ UNCHANGED <<oosTaint, wstate>>
           ELSE UNCHANGED <<oosTaint, wstate>>
    /\ UNCHANGED <<now, ready, cloud, knodes, cordoned, drainTaint, gsAllocated, records,
                   uids, ctlVars, harness, lease, whandler, wflow>>
    /\ UNCHANGED wsweep

\* ------------------------------------------- handlers/reconciler.py
\* k8s/client.py add_node_taint(node, "temporary-node", "draining",
\* "NoSchedule"): the node object carries the taint afterwards
add_node_taint(taints, vm) == taints \cup {vm}

\* state.py get_nodes_ready_for_taint, without its test of the time passed
\* since recovery_detected_at
ReadyForTaint(st) == st.exists /\ st.recAt /\ ~st.taint /\ st.created

\* state.py get_nodes_ready_for_cleanup
ReadyForCleanup(st) == st.exists /\ st.taint /\ st.recAt

\* _apply_taints_to_recovered_nodes, one node of the listing (the function
\* has no await): ONPREM_RECOVERY_WAIT_SECONDS have passed since the
\* recovery.  A node that is unready again loses recovery_detected_at; a
\* substitute that left the cluster ends the state; else the substitute is
\* tainted (which may fail).
r_apply_taints(r, n) ==
    /\ r \in live
    /\ ReadyForTaint(wstate[r][n])
    /\ LET st == wstate[r][n]
       IN  IF st.vm = NoVm
           THEN UNCHANGED <<wstate, drainTaint>>
           ELSE IF ~ready[n]
           THEN /\ wstate' = [wstate EXCEPT ![r][n].recAt = FALSE]
                /\ UNCHANGED drainTaint
           ELSE IF st.vm \notin knodes
           THEN /\ wstate' = [wstate EXCEPT ![r][n] = remove_node(st)]
                /\ UNCHANGED drainTaint
           ELSE \/ /\ drainTaint' = add_node_taint(drainTaint, st.vm)
                   /\ wstate' = [wstate EXCEPT ![r][n] = update_taint_applied(st)]
                \/ UNCHANGED <<wstate, drainTaint>>
    /\ UNCHANGED <<now, ready, oosTaint, cloud, knodes, cordoned, gsAllocated,
                   records, uids, ctlVars, harness, lease, whandler, wflow, wjoin, wsweep>>

\* _cleanup_ready_vms, one node of the listing, up to its first await: the
\* substitute left the cluster (its VM is deleted if the cloud has it), or
\* its Allocated count is zero (drain_node, then the 10 s sleep), or the
\* count is not zero (nothing is done).
r_cleanup_start(r, n) ==
    /\ r \in live
    /\ wsweep[r].pc = "idle"
    /\ ReadyForCleanup(wstate[r][n])
    /\ wstate[r][n].vm # NoVm
    /\ LET st == wstate[r][n]
           vm == st.vm
       IN  IF vm \notin knodes
           THEN IF vm \in cloud
                THEN /\ wsweep' = [wsweep EXCEPT ![r] =
                                     [pc |-> "orphan_delete", n |-> n, vm |-> vm]]
                     /\ UNCHANGED <<wstate, cordoned>>
                ELSE /\ wstate' = [wstate EXCEPT ![r][n] = remove_node(st)]
                     /\ UNCHANGED <<wsweep, cordoned>>
           ELSE \E count \in CountResults(vm), detected \in 0..now :
                  IF CleanupDecision(count, detected, now) = "cleanup"
                  THEN /\ cordoned' = cordoned \cup {vm}
                       /\ wsweep' = [wsweep EXCEPT ![r] =
                                       [pc |-> "drain_sleep", n |-> n, vm |-> vm]]
                       /\ UNCHANGED wstate
                  ELSE UNCHANGED <<wstate, wsweep, cordoned>>
    /\ UNCHANGED <<now, ready, oosTaint, cloud, knodes, drainTaint, gsAllocated,
                   records, uids, ctlVars, harness, lease, whandler, wflow, wjoin>>

\* the substitute had left the cluster: delete_instance returns (its result
\* is not looked at) and the state is removed.
r_cleanup_orphan_deleted(r) ==
    /\ wsweep[r].pc = "orphan_delete"
    /\ \/ DeleteVm(wsweep[r].vm)
       \/ UNCHANGED <<cloud, gsAllocated>>
    /\ wstate' = [wstate EXCEPT ![r][wsweep[r].n] = remove_node(@)]
    /\ wsweep' = [wsweep EXCEPT ![r] = IdleSweep]
    /\ UNCHANGED <<now, ready, oosTaint, knodes, cordoned, drainTaint,
                   records, uids, ctlVars, harness, lease, whandler, wflow, wjoin>>

\* after the 10 s sleep: delete_node, then the call of delete_instance
r_cleanup_delete_node(r) ==
    /\ wsweep[r].pc = "drain_sleep"
    /\ knodes' = knodes \ {wsweep[r].vm}
    /\ cordoned' = cordoned \ {wsweep[r].vm}
    /\ drainTaint' = drainTaint \ {wsweep[r].vm}
    /\ wsweep' = [wsweep EXCEPT ![r].pc = "deleting"]
    /\ UNCHANGED <<now, ready, oosTaint, cloud, gsAllocated,
                   records, uids, ctlVars, harness, wstate, lease, whandler, wflow, wjoin>>

\* delete_instance returns: on success the state is removed, on failure it
\* is kept.
r_cleanup_vm_deleted(r) ==
    /\ wsweep[r].pc = "deleting"
    /\ \/ /\ DeleteVm(wsweep[r].vm)
          /\ wstate' = [wstate EXCEPT ![r][wsweep[r].n] = remove_node(@)]
       \/ UNCHANGED <<cloud, gsAllocated, wstate>>
    /\ wsweep' = [wsweep EXCEPT ![r] = IdleSweep]
    /\ UNCHANGED <<now, ready, oosTaint, knodes, cordoned, drainTaint,
                   records, uids, ctlVars, harness, lease, whandler, wflow, wjoin>>

\* ---------------------------------------------------- gcp/cloud_init.py
\* generate_vm_name on the text of the node name.  A text is a sequence of
\* characters; "U+00E9" (e with acute accent) and "U+0663" (Arabic-Indic
\* digit three) stand for one non-ASCII letter and one non-ASCII digit.
AsciiLower == {"a", "b", "c", "d", "e", "f", "g", "h", "i", "j", "k", "l", "m",
               "n", "o", "p", "q", "r", "s", "t", "u", "v", "w", "x", "y", "z"}
AsciiUpper == {"B"}
AsciiDigits == {"0", "1", "2", "3", "4", "5", "6", "7", "8", "9"}

\* the characters node names are made of
NameChars == {"a", "B", "7", "_", "-", ".", "U+00E9", "U+0663"}

\* str.lower(), str.replace("_", "-"), str.isalpha(), str.isalnum() on one
\* character: the str methods go by the Unicode category of the character
str_lower(c) == IF c = "B" THEN "b" ELSE c
str_replace(c) == IF c = "_" THEN "-" ELSE c
isalpha(c) == c \in AsciiLower \cup AsciiUpper \cup {"U+00E9"}
isalnum(c) == isalpha(c) \/ c \in AsciiDigits \cup {"U+0663"}

GcpTemp == <<"g", "c", "p", "-", "t", "e", "m", "p", "-">>
NodeDash == <<"n", "o", "d", "e", "-">>

\* GCP's limit on the length of an instance name
VM_NAME_LIMIT == 63

\* sanitized[0] on an empty string raises IndexError: no name is returned
IndexError == <<"IndexError">>

\* s[:k]
Slice(s, k) == SubSeq(s, 1, IF k < Len(s) THEN k ELSE Len(s))

\* generate_vm_name(onprem_node_name), with str(int(time.time())) passed as
\* timestamp
generate_vm_name_text(onprem_node_name, timestamp) ==
    LET lowered == [i \in 1..Len(onprem_node_name) |->
                       str_replace(str_lower(onprem_node_name[i]))]
        kept == SelectSeq(lowered, LAMBDA c : isalnum(c) \/ c = "-")
    IN  IF kept = <<>>
        THEN IndexError
        ELSE LET sanitized == IF ~isalpha(kept[1]) THEN NodeDash \o kept ELSE kept
                 vm_name == GcpTemp \o sanitized \o <<"-">> \o timestamp
                 max_prefix_len == VM_NAME_LIMIT - Len(timestamp) - 10
             IN  IF Len(vm_name) > VM_NAME_LIMIT
                 THEN GcpTemp \o Slice(sanitized, max_prefix_len) \o <<"-">> \o timestamp
                 ELSE vm_name

\* The node names the generator is called with: every text of 1..MaxNameLen
\* characters, alone or followed by a run of "a" that takes the name to the
\* length budget and past it.
MaxNameLen == 2
RECURSIVE Texts(_)
Texts(k) ==
    IF k = 0 THEN {<<>>}
    ELSE {Append(t, c) : t \in Texts(k - 1), c \in NameChars}
Run(c, k) == [i \in 1..k |-> c]
PadLengths == {0, 40, 41, 42, 43, 44}
NodeNameTexts ==
    {t \o Run("a", k) : t \in UNION {Texts(l) : l \in 1..MaxNameLen}, k \in PadLengths}

\* str(int(time.time())): 10 digits today, 11 from the year 2286 on, 1 on a
\* clock that was never set
TimestampTexts == {Run("1", k) : k \in {1, 10, 11}}

\* no call yet / the call has not returned
NoNaming == [name |-> <<>>, ts |-> <<>>, out |-> <<>>, scan |-> <<>>,
             found |-> "none"]

\* generate_vm_name returns
call_generate_vm_name ==
    /\ naming.name # <<>>
    /\ naming.out = <<>>
    /\ naming' = [naming EXCEPT !.out = generate_vm_name_text(naming.name, naming.ts)]
    /\ UNCHANGED <<envVars, records, uids, ctlVars, watchVars, calls, locking, patching, labeling>>

\* str.startswith
startswith(s, prefix) ==
    Len(prefix) <= Len(s) /\ SubSeq(s, 1, Len(prefix)) = prefix

\* the prefix create_failover_vm and reconstruct_state scan the instance
\* listing for (nodefailover_handler.py 93-98, node_watcher.py 198-202,
\* reconciliation.py 101-105)
vm_prefix(node_name) ==
    LET lowered == [i \in 1..Len(node_name) |-> str_replace(str_lower(node_name[i]))]
        kept == SelectSeq(lowered, LAMBDA c : isalnum(c) \/ c = "-")
    IN  IF kept = <<>>
        THEN IndexError
        ELSE GcpTemp \o (IF ~isalpha(kept[1]) THEN NodeDash \o kept ELSE kept)

\* the prefix the startup pass of the in-memory pipeline scans for
\* (reconciler.py line 223)
startup_vm_prefix(node_name) ==
    GcpTemp \o [i \in 1..Len(node_name) |-> str_replace(str_lower(node_name[i]))]

\* names a cluster node can have (a DNS subdomain: lower-case letters,
\* digits, "-" and ".", a letter or digit first and last) among NodeNameTexts
K8sNodeNames ==
    {t \in NodeNameTexts :
        /\ \A i \in 1..Len(t) : t[i] \in {"a", "7", "-", "."}
        /\ t[1] \in {"a", "7"}
        /\ t[Len(t)] \in {"a", "7"}}

\* the scan for node naming.scan meets the instance generate_vm_name made for
\* node naming.name: `if instance.name.startswith(vm_prefix)`, with the
\* prefix of the record pipeline or that of the in-memory startup pass
scan_instance ==
    /\ naming.scan # <<>>
    /\ naming.out # <<>>
    /\ naming.found = "none"
    /\ \E prefix \in {vm_prefix(naming.scan), startup_vm_prefix(naming.scan)} :
          naming' = [naming EXCEPT !.found =
                       IF startswith(naming.out, prefix) THEN "yes" ELSE "no"]
    /\ UNCHANGED <<envVars, records, uids, ctlVars, watchVars, calls, locking, patching, labeling>>

\* no create_instance call is counted
NoCalls == [u \in 1..MaxRecords |-> 0]

\* --------------------------------------------------------- k8s/lock.py
\* acquire_lock step by step against the Lease API, for the races between
\* its read and its write.  The API keeps one Lease object per name; every
\* write gives the object a new resourceVersion, replace is refused with 409
\* when the body's resourceVersion is not the object's, create is refused
\* with 409 when the object exists, and replace of a missing object is 404.
LEASE_DURATION_SECONDS == 15

\* the lock's clock advances LockStep seconds at a time until it has passed
\* MaxLockTime; MaxRevisions writes to the Lease API are followed
LockStep == 5
MaxLockTime == 16
MaxRevisions == 3

\* the timeout_seconds a caller passes
TimeoutChoices == {2, 30}

\* the API holds no Lease of the name
NoLeaseObject == [holder |-> None, renew |-> NoTime, rv |-> 0]

\* a replica outside acquire_lock; ret is what its last call returned
IdleLocker == [pc |-> "idle", start |-> 0, timeout |-> 0, rv |-> 0,
               wake |-> 0, ret |-> "none", why |-> "none"]

NoLocking == [t |-> 0, rev |-> 0, lease |-> NoLeaseObject,
              proc |-> [r \in Replicas |-> IdleLocker]]

\* lines 49-55: renew_time is set and less than lease_duration_seconds have
\* passed since
StillValid(l, t) == l.renew # NoTime /\ t - l.renew < LEASE_DURATION_SECONDS

\* a replace that overwrites whatever the object holds by now
ReplaceUnconditional(l, rv) == l.holder # None

\* replace_namespaced_lease with the body read before (lines 66-75): takes
\* effect when the object still has the resourceVersion of the body
ReplaceAccepted(l, rv) == l.holder # None /\ l.rv = rv

\* time passes
lock_tick ==
    /\ locking.t < MaxLockTime
    /\ locking' = [locking EXCEPT !.t = @ + LockStep]
    /\ UNCHANGED <<envVars, records, uids, ctlVars, watchVars, naming, calls, patching, labeling>>

\* acquire_lock is called: start_time is taken (line 37)
acquire_lock(r, timeout_seconds) ==
    /\ locking.proc[r].pc = "idle"
    /\ locking' = [locking EXCEPT !.proc[r] =
                     [IdleLocker EXCEPT !.pc = "loop", !.start = locking.t,
                                        !.timeout = timeout_seconds]]
    /\ UNCHANGED <<envVars, records, uids, ctlVars, watchVars, naming, calls, patching, labeling>>

\* one pass of the while loop up to its write (lines 39-64, 79-81, 113-121):
\* the timeout is over (False), the read fails with another error than 404
\* (False), there is no Lease (go on to create), the Lease is valid (True for
\* the holder, sleep for anyone else), or it is expired (go on to replace).
acquire_read(r) ==
    /\ locking.proc[r].pc = "loop"
    /\ LET p == locking.proc[r]
           l == locking.lease
           t == locking.t
       IN  IF ~(t - p.start < p.timeout)
           THEN locking' = [locking EXCEPT !.proc[r] =
                  [IdleLocker EXCEPT !.ret = "False", !.why = "timeout"]]
           ELSE \/ locking' = [locking EXCEPT !.proc[r] =
                     [IdleLocker EXCEPT !.ret = "False", !.why = "error"]]
                \/ IF l.holder = None
                   THEN locking' = [locking EXCEPT !.proc[r].pc = "create"]
                   ELSE IF StillValid(l, t)
                   THEN IF l.holder = r
                        THEN locking' = [locking EXCEPT !.proc[r] =
                               [IdleLocker EXCEPT !.ret = "True", !.why = "held"]]
                        ELSE locking' = [locking EXCEPT
                               !.proc[r].pc = "sleep",
                               !.proc[r].wake = t + 1,
                               !.proc[r].why = "held-by-other"]
                   ELSE locking' = [locking EXCEPT !.proc[r].pc = "replace",
                                                   !.proc[r].rv = l.rv]
    /\ UNCHANGED <<envVars, records, uids, ctlVars, watchVars, naming, calls, patching, labeling>>

\* lines 66-78: the replace call returns.  Accepted: the Lease is this
\* holder's, renewed now, and acquire_lock returns True.  404: on to the
\* create of lines 80-101.  409: sleep a second and retry (lines 105-110).
acquire_replace(r) ==
    /\ locking.proc[r].pc = "replace"
    /\ locking.rev < MaxRevisions
    /\ LET p == locking.proc[r]
           l == locking.lease
       IN  IF ReplaceAccepted(l, p.rv)
           THEN locking' = [locking EXCEPT
                  !.rev = @ + 1,
                  !.lease = [holder |-> r, renew |-> locking.t, rv |-> locking.rev + 1],
                  !.proc[r] = [IdleLocker EXCEPT !.ret = "True", !.why = "replaced"]]
           ELSE IF l.holder = None
           THEN locking' = [locking EXCEPT !.proc[r].pc = "create"]
           ELSE locking' = [locking EXCEPT !.proc[r].pc = "sleep",
                                           !.proc[r].wake = locking.t + 1,
                                           !.proc[r].why = "conflict"]
    /\ UNCHANGED <<envVars, records, uids, ctlVars, watchVars, naming, calls, patching, labeling>>

\* lines 80-101: the create call returns.  No Lease of the name: it is
\* created for this holder and acquire_lock returns True.  409 otherwise.
acquire_create(r) ==
    /\ locking.proc[r].pc = "create"
    /\ locking.rev < MaxRevisions
    /\ IF locking.lease.holder = None
       THEN locking' = [locking EXCEPT
              !.rev = @ + 1,
              !.lease = [holder |-> r, renew |-> locking.t, rv |-> locking.rev + 1],
              !.proc[r] = [IdleLocker EXCEPT !.ret = "True", !.why = "created"]]
       ELSE locking' = [locking EXCEPT !.proc[r].pc = "sleep",
                                       !.proc[r].wake = locking.t + 1,
                                       !.proc[r].why = "conflict"]
    /\ UNCHANGED <<envVars, records, uids, ctlVars, watchVars, naming, calls, patching, labeling>>

\* time.sleep(1) returns (lines 61-62, 108-109)
acquire_retry(r) ==
    /\ locking.proc[r].pc = "sleep"
    /\ locking.t >= locking.proc[r].wake
    /\ locking' = [locking EXCEPT !.proc[r].pc = "loop", !.proc[r].wake = 0,
                                  !.proc[r].why = "none"]
    /\ UNCHANGED <<envVars, records, uids, ctlVars, watchVars, naming, calls, patching, labeling>>

\* release_lock by a caller whose acquire_lock returned True: the Lease is
\* deleted, whoever holds it; 404 is not an error.
release_lock(r) ==
    /\ locking.proc[r].pc = "idle"
    /\ locking.proc[r].ret = "True"
    /\ locking' = [locking EXCEPT !.lease = NoLeaseObject,
                                  !.proc[r] = IdleLocker]
    /\ UNCHANGED <<envVars, records, uids, ctlVars, watchVars, naming, calls, patching, labeling>>


\* ------------------------------------- crd/nodefailover.py, step by step
\* update_status and set_condition as the two API calls they are: get(), then
\* patch_cluster_custom_object_status with a body built from what get()
\* returned.  The body is a JSON object, so the API server applies it as a
\* merge patch: a status field the body names is overwritten, one it does not
\* name is kept, and the conditions list is replaced as a whole.
StatusFields == {"phase", "vm", "recAt", "attempts", "lastError", "conds"}

MergePatch(obj, body) ==
    [f \in DOMAIN obj |-> IF f \in DOMAIN body THEN body[f] ELSE obj[f]]

\* update_status, lines 117-132: the status that was read, with the given
\* fields overwritten, is the body
StatusBody(snap, patch) ==
    [f \in StatusFields |-> IF f \in DOMAIN patch THEN patch[f] ELSE snap[f]]

\* set_condition, lines 168-190: the conditions that were read, with the one
\* of that type replaced, are the body
ConditionBody(snap, type, status) ==
    [conds |-> [snap.conds EXCEPT ![type] = status]]

\* the status writes the callers make
StatusPatches ==
    {[phase |-> RECOVERING, recAt |-> 0],
     [attempts |-> 1, phase |-> CREATING],
     [lastError |-> "create-failed"]}
ConditionWrites == {<<VM_CREATED, CondTrue>>, <<ONPREM_RECOVERED, CondTrue>>}

\* a replica outside the two calls
IdleWriter == [pc |-> "idle", body |-> <<>>, named |-> {}]

NoPatching ==
    [obj |-> NewRecord(CHOOSE n \in OnpremNodes : TRUE, 1),
     proc |-> [r \in Replicas |-> IdleWriter]]

\* update_status up to its patch call: get() and the body.  named: the status
\* fields the caller gave.
update_status_get(r, patch) ==
    /\ patching.proc[r].pc = "idle"
    /\ patching' = [patching EXCEPT !.proc[r] =
                      [pc |-> "patch", body |-> StatusBody(patching.obj, patch),
                       named |-> DOMAIN patch]]
    /\ UNCHANGED <<envVars, records, uids, ctlVars, watchVars, naming, calls, locking, labeling>>

\* set_condition up to its patch call
set_condition_get(r, type, status) ==
    /\ patching.proc[r].pc = "idle"
    /\ patching' = [patching EXCEPT !.proc[r] =
                      [pc |-> "patch",
                       body |-> ConditionBody(patching.obj, type, status),
                       named |-> {"conds"}]]
    /\ UNCHANGED <<envVars, records, uids, ctlVars, watchVars, naming, calls, locking, labeling>>

\* the patch call of either
status_patch(r) ==
    /\ patching.proc[r].pc = "patch"
    /\ patching' = [patching EXCEPT
                      !.obj = MergePatch(@, patching.proc[r].body),
                      !.proc[r] = IdleWriter]
    /\ UNCHANGED <<envVars, records, uids, ctlVars, watchVars, naming, calls, locking, labeling>>

\* ------------------------------------------- the labels of a substitute
\* A label map is a function from the keys it holds to their values.
NoLabels == <<>>

\* dict.update: the entries of b added to a, b's value where both hold a key
dict_update(a, b) ==
    [k \in DOMAIN a \cup DOMAIN b |-> IF k \in DOMAIN b THEN b[k] ELSE a[k]]

\* {k: v for k, v in all_labels.items() if k in copy_label_keys}
\* (node_event_handler.py lines 52-53)
target_labels(all_labels, copy_label_keys) ==
    [k \in DOMAIN all_labels \cap copy_label_keys |-> all_labels[k]]

\* wait_for_node_join, lines 205-209
GcpLabels == [k \in {"node-type", "node-location"} |->
                IF k = "node-type" THEN "gcp-temporary" ELSE "gcp"]

\* node_labels.update(labels), line 209
node_labels(fixed, labels) == dict_update(fixed, labels)

\* the custom labels an on-premise node can carry: node-type = onpremise (the
\* label the operator selects on-premise nodes by), and with or without a
\* node-location and a pool
OnpremLabelMaps ==
    {dict_update([k \in {"node-type"} |-> "onpremise"], dict_update(loc, pool)) :
        loc \in {NoLabels, [k \in {"node-location"} |-> "onprem"]},
        pool \in {NoLabels} \cup {[k \in {"pool"} |-> v] : v \in {"game", "web"}}}

\* GCP_NODE_COPY_LABELS: any list of these keys
AllowLists == SUBSET {"node-type", "node-location", "pool"}

\* none of the flow has run / the label patch has not been made
NoLabeling == [all |-> NoLabels, allow |-> {}, target |-> NoLabels,
               pc |-> "idle", node |-> NoLabels]

\* on_node_event creates the record with targetNodeLabels; the VM is created
\* and joins; wait_for_node_join patches the substitute's labels (the patch
\* merges them into the labels the node has), which may fail.
label_substitute ==
    /\ labeling.pc = "joined"
    /\ \/ labeling' = [labeling EXCEPT
              !.pc = "labeled",
              !.node = dict_update(@, node_labels(GcpLabels, labeling.target))]
       \/ labeling' = [labeling EXCEPT !.pc = "failed"]
    /\ UNCHANGED <<envVars, records, uids, ctlVars, watchVars, naming, calls, locking, patching>>

\* ------------------------------------------------------ specification
InitCluster ==
    /\ now = 0
    /\ ready = [n \in OnpremNodes |-> TRUE]
    /\ oosTaint = {}
    /\ cloud = {}
    /\ knodes = {}
    /\ cordoned = {}
    /\ drainTaint = {}
    /\ gsAllocated = [vm \in VmNames |-> 0]
    /\ records = {}
    /\ uids = 0
    /\ succeeded = {}
    /\ router = [r \in Replicas |-> IdleRouter]
    /\ createEvt = [r \in Replicas |-> FALSE]
    /\ phaseEvt = [r \in Replicas |-> {}]
    /\ flow = [r \in Replicas |-> IdleFlow]
    /\ joinTasks = [r \in Replicas |-> {}]
    /\ activeSleep = [r \in Replicas |-> FALSE]
    /\ sweep = [r \in Replicas |-> IdleSweep]
    /\ wstate = [r \in Replicas |-> [n \in OnpremNodes |-> NoState]]
    /\ lease = NoLease
    /\ whandler = [r \in Replicas |-> IdleHandler]
    /\ wflow = [r \in Replicas |-> IdleWFlow]
    /\ wjoin = [r \in Replicas |-> {}]
    /\ wsweep = [r \in Replicas |-> IdleSweep]

\* one controller process
Init ==
    /\ InitCluster
    /\ live = {"r1"}
    /\ naming = NoNaming
    /\ calls = NoCalls
    /\ locking = NoLocking
    /\ patching = NoPatching
    /\ labeling = NoLabeling

\* every replica of the Deployment runs (no peering is configured, so each
\* one gets every event)
InitReplicas ==
    /\ InitCluster
    /\ live = Replicas
    /\ naming = NoNaming
    /\ calls = NoCalls
    /\ locking = NoLocking
    /\ patching = NoPatching
    /\ labeling = NoLabeling

EnvNext ==
    \/ Tick
    \/ \E n \in OnpremNodes : NodeFails(n)
    \/ \E n \in OnpremNodes : NodeRecovers(n)
    \/ \E vm \in VmNames : VmJoins(vm)
    \/ \E vm \in VmNames : Allocate(vm)
    \/ \E vm \in VmNames : Deallocate(vm)

Next ==
    \/ EnvNext
    \/ \E r \in Replicas, n \in OnpremNodes : on_node_event(r, n)
    \/ \E r \in Replicas : router_write(r)
    \/ \E r \in Replicas, n \in OnpremNodes : on_nodefailover_create(r, n)
    \/ \E r \in Replicas : grace_expired(r)
    \/ \E r \in Replicas : cfv_inc(r)
    \/ \E r \in Replicas : create_done(r)
    \/ \E r \in Replicas : backoff_expired(r)
    \/ \E r \in Replicas, vm \in VmNames : wait_for_node_join(r, vm)
    \/ \E r \in Replicas : on_phase_active(r)
    \/ \E r \in Replicas, n \in OnpremNodes : handle_active_phase(r, n)
    \/ \E r \in Replicas, n \in OnpremNodes : handle_recovering_phase(r, n)
    \/ \E r \in Replicas : sweep_start(r)
    \/ \E r \in Replicas : sweep_orphan_deleted(r)
    \/ \E r \in Replicas : sweep_delete_node(r)
    \/ \E r \in Replicas : sweep_vm_deleted(r)
    \/ \E r \in Replicas, n \in OnpremNodes : on_startup(r, n)

Spec == Init /\ [][Next]_vars

\* The creation path with every replica running: the router and the creation
\* handler with its retries.
NextReplicas ==
    \/ Tick
    \/ \E n \in OnpremNodes : NodeFails(n)
    \/ \E n \in OnpremNodes : NodeRecovers(n)
    \/ \E r \in Replicas, n \in OnpremNodes : on_node_event(r, n)
    \/ \E r \in Replicas : router_write(r)
    \/ \E r \in Replicas, n \in OnpremNodes : on_nodefailover_create(r, n)
    \/ \E r \in Replicas : grace_expired(r)
    \/ \E r \in Replicas : cfv_inc(r)
    \/ \E r \in Replicas : create_done(r)
    \/ \E r \in Replicas : backoff_expired(r)

SpecReplicas == InitReplicas /\ [][NextReplicas]_vars

\* The record store under every replica: the router, the creation handler
\* with its retries, and restarts with their startup pass.
NextStore ==
    \/ \E n \in OnpremNodes : NodeFails(n)
    \/ \E n \in OnpremNodes : NodeRecovers(n)
    \/ \E r \in Replicas, n \in OnpremNodes : on_node_event(r, n)
    \/ \E r \in Replicas : router_write(r)
    \/ \E r \in Replicas, n \in OnpremNodes : on_nodefailover_create(r, n)
    \/ \E r \in Replicas : grace_expired(r)
    \/ \E r \in Replicas : cfv_inc(r)
    \/ \E r \in Replicas : create_done(r)
    \/ \E r \in Replicas : backoff_expired(r)
    \/ \E r \in Replicas, n \in OnpremNodes : on_startup(r, n)

SpecStore == InitReplicas /\ [][NextStore]_vars

\* One controller process that stays up: the record pipeline through whole
\* failover cycles, from the node event to the sweep, with the clock
\* standing still.
NextCycle ==
    \/ \E n \in OnpremNodes : NodeFails(n)
    \/ \E n \in OnpremNodes : NodeRecovers(n)
    \/ \E vm \in VmNames : VmJoins(vm)
    \/ \E vm \in VmNames : Allocate(vm)
    \/ \E vm \in VmNames : Deallocate(vm)
    \/ \E r \in Replicas, n \in OnpremNodes : on_node_event(r, n)
    \/ \E r \in Replicas : router_write(r)
    \/ \E r \in Replicas, n \in OnpremNodes : on_nodefailover_create(r, n)
    \/ \E r \in Replicas : grace_expired(r)
    \/ \E r \in Replicas : cfv_inc(r)
    \/ \E r \in Replicas : create_done(r)
    \/ \E r \in Replicas : backoff_expired(r)
    \/ \E r \in Replicas, vm \in VmNames : wait_for_node_join(r, vm)
    \/ \E r \in Replicas : on_phase_active(r)
    \/ \E r \in Replicas, n \in OnpremNodes : handle_active_phase(r, n)
    \/ \E r \in Replicas, n \in OnpremNodes : handle_recovering_phase(r, n)
    \/ \E r \in Replicas : sweep_start(r)
    \/ \E r \in Replicas : sweep_orphan_deleted(r)
    \/ \E r \in Replicas : sweep_delete_node(r)
    \/ \E r \in Replicas : sweep_vm_deleted(r)

SpecCycle == Init /\ [][NextCycle]_vars

\* The record pipeline of one controller process with the clock running, so
\* that a sweep meets a Draining record both before and after the drain
\* limit.
NextCycleClock ==
    \/ NextCycle
    \/ Tick

SpecCycleClock == Init /\ [][NextCycleClock]_vars

\* The in-memory pipeline with every replica running: the node watcher and
\* its creation task under the lease lock.
NextWatcher ==
    \/ Tick
    \/ LeaseExpires
    \/ \E n \in OnpremNodes : NodeFails(n)
    \/ \E n \in OnpremNodes : NodeRecovers(n)
    \/ \E r \in Replicas, n \in OnpremNodes : w_on_node_event(r, n)
    \/ \E r \in Replicas : w_old_vm_deleted(r)
    \/ \E r \in Replicas : w_grace_expired(r)
    \/ \E r \in Replicas : w_create_failover_vm(r)
    \/ \E r \in Replicas : w_backoff_expired(r)
    \/ \E r \in Replicas : w_create_done(r)

SpecWatcher == InitReplicas /\ [][NextWatcher]_vars

\* The in-memory pipeline of one process, with the join wait of its VMs.
JoinTasks == [vm : VmNames, pc : {"join", "grace"}]

NextWatcherOne ==
    \/ NextWatcher
    \/ \E vm \in VmNames : VmJoins(vm)
    \/ \E vm \in VmNames : Allocate(vm)
    \/ \E r \in Replicas, t \in JoinTasks : w_wait_and_label_node(r, t)
    \/ \E r \in Replicas, t \in JoinTasks : w_taint_after_grace(r, t)

SpecWatcherOne == Init /\ [][NextWatcherOne]_vars

\* The in-memory pipeline of one process with its periodic reconciliation:
\* the taint pass and the cleanup pass of reconcile_failovers.
NextReconciler ==
    \/ NextWatcherOne
    \/ \E vm \in VmNames : Deallocate(vm)
    \/ \E r \in Replicas, n \in OnpremNodes : r_apply_taints(r, n)
    \/ \E r \in Replicas, n \in OnpremNodes : r_cleanup_start(r, n)
    \/ \E r \in Replicas : r_cleanup_orphan_deleted(r)
    \/ \E r \in Replicas : r_cleanup_delete_node(r)
    \/ \E r \in Replicas : r_cleanup_vm_deleted(r)

SpecReconciler == Init /\ [][NextReconciler]_vars

\* The operator as kopf runs it, one process: the node watcher with its
\* creation task, the router and the startup pass of the record pipeline, and
\* the NodeFailover handlers reached through their registration.  (The sweep
\* acts on Draining records only, and no record gets to Draining here.)  A
\* step of the operator that can be taken is taken in the end; failures and
\* recoveries of the node and restarts of the process are up to the
\* environment.
NextKopf ==
    \/ LeaseExpires
    \/ \E n \in OnpremNodes : NodeFails(n)
    \/ \E n \in OnpremNodes : NodeRecovers(n)
    \/ \E vm \in VmNames : VmJoins(vm)
    \/ \E r \in Replicas, n \in OnpremNodes : on_node_event(r, n)
    \/ \E r \in Replicas : router_write(r)
    \/ \E r \in Replicas : kopf_dispatch(r)
    \/ \E r \in Replicas, n \in OnpremNodes : on_startup(r, n)
    \/ \E r \in Replicas, n \in OnpremNodes : w_on_node_event(r, n)
    \/ \E r \in Replicas : w_old_vm_deleted(r)
    \/ \E r \in Replicas : w_grace_expired(r)
    \/ \E r \in Replicas : w_create_failover_vm(r)
    \/ \E r \in Replicas : w_backoff_expired(r)
    \/ \E r \in Replicas : w_create_done(r)

FairKopf ==
    /\ WF_vars(LeaseExpires)
    /\ WF_vars(\E vm \in VmNames : VmJoins(vm))
    /\ \A r \in Replicas :
        /\ WF_vars(\E n \in OnpremNodes : on_node_event(r, n))
        /\ WF_vars(router_write(r))
        /\ WF_vars(kopf_dispatch(r))
        /\ WF_vars(\E n \in OnpremNodes : w_on_node_event(r, n))
        /\ WF_vars(w_old_vm_deleted(r))
        /\ WF_vars(w_grace_expired(r))
        /\ WF_vars(w_create_failover_vm(r))
        /\ WF_vars(w_backoff_expired(r))
        /\ WF_vars(w_create_done(r))

SpecKopf == Init /\ [][NextKopf]_vars /\ FairKopf

\* The creation path of one controller process when the status write of
\* create_failover_vm can fail, with the create_instance calls counted.
NextAttempts ==
    \/ Tick
    \/ \E n \in OnpremNodes : NodeFails(n)
    \/ \E n \in OnpremNodes : NodeRecovers(n)
    \/ \E r \in Replicas, n \in OnpremNodes : on_node_event(r, n)
    \/ \E r \in Replicas : router_write(r)
    \/ \E r \in Replicas, n \in OnpremNodes : on_nodefailover_create(r, n)
    \/ \E r \in Replicas : grace_expired(r)
    \/ \E r \in Replicas : cfv_inc_counted(r)
    \/ \E r \in Replicas : cfv_inc_write_fails(r)
    \/ \E r \in Replicas : create_done(r)
    \/ \E r \in Replicas : backoff_expired(r)

SpecAttempts == Init /\ [][NextAttempts]_vars

\* The lease lock alone: every replica calls acquire_lock and release_lock
\* on the one resource as it likes, while the seconds pass.
NextLock ==
    \/ lock_tick
    \/ \E r \in Replicas, timeout_seconds \in TimeoutChoices :
          acquire_lock(r, timeout_seconds)
    \/ \E r \in Replicas : acquire_read(r)
    \/ \E r \in Replicas : acquire_replace(r)
    \/ \E r \in Replicas : acquire_create(r)
    \/ \E r \in Replicas : acquire_retry(r)
    \/ \E r \in Replicas : release_lock(r)

SpecLock == InitReplicas /\ [][NextLock]_vars

\* The status writes alone: every replica writes the status of the one
\* object as the handlers do, a get followed by a patch.
NextPatch ==
    \/ \E r \in Replicas, patch \in StatusPatches : update_status_get(r, patch)
    \/ \E r \in Replicas, w \in ConditionWrites : set_condition_get(r, w[1], w[2])
    \/ \E r \in Replicas : status_patch(r)

SpecPatch == InitReplicas /\ [][NextPatch]_vars

\* The label flow alone, on every on-premise label map and allow-list.
InitLabels ==
    /\ InitCluster
    /\ live = {"r1"}
    /\ naming = NoNaming
    /\ calls = NoCalls
    /\ locking = NoLocking
    /\ patching = NoPatching
    /\ labeling \in {[all |-> m, allow |-> a, target |-> target_labels(m, a),
                      pc |-> "joined", node |-> NoLabels] :
                        m \in OnpremLabelMaps, a \in AllowLists}

NextLabels == label_substitute

SpecLabels == InitLabels /\ [][NextLabels]_vars

\* The generator and the scan together: a VM is named for one node and the
\* scan for a node, the same or another, meets it in the listing.
InitScan ==
    /\ InitCluster
    /\ live = {"r1"}
    /\ calls = NoCalls
    /\ locking = NoLocking
    /\ patching = NoPatching
    /\ labeling = NoLabeling
    /\ naming \in {[NoNaming EXCEPT !.name = m, !.scan = n, !.ts = Run("1", 10)] :
                      m \in K8sNodeNames, n \in K8sNodeNames}

NextScan == call_generate_vm_name \/ scan_instance

SpecScan == InitScan /\ [][NextScan]_vars

\* The startup pass on whatever a starting operator finds.  The store holds
\* no record of the node or one record in any phase (Pending names no VM,
\* Active names one; the recovery time is set from Recovering on), the cloud
\* holds any set of VMs, any of them joined, the node is ready or not and
\* carries the out-of-service taint or not.  A VM without a record is left by
\* a record deleted by hand, by a router that stopped between its delete and
\* its create, and by the in-memory pipeline, which writes no record.
StartupRecord(n, p, vm, joined, tainted) ==
    [NewRecord(n, 1) EXCEPT !.phase = p, !.vm = vm,
                            !.recAt = IF p \in {RECOVERING, DRAINING, COMPLETED}
                                      THEN 0 ELSE NoTime,
                            !.attempts = IF p = PENDING THEN 0 ELSE 1,
                            !.conds[VM_CREATED] = IF vm = NoVm THEN Unset ELSE CondTrue,
                            !.conds[NODE_JOINED] = joined,
                            !.conds[TAINT_APPLIED] = tainted]

StartupShapes ==
    {x \in OnpremNodes \X NodeFailoverPhase \X (VmNames \cup {NoVm})
            \X {Unset, CondTrue} \X {Unset, CondTrue} :
        /\ x[2] = PENDING => x[3] = NoVm
        /\ x[2] = ACTIVE => x[3] # NoVm
        /\ x[2] \in {PENDING, CREATING} => x[4] = Unset /\ x[5] = Unset
        /\ x[2] = ACTIVE => x[4] = CondTrue}

StartupRecords ==
    {{}} \cup {{StartupRecord(x[1], x[2], x[3], x[4], x[5])} : x \in StartupShapes}

InitStartup ==
    /\ now = 0
    /\ ready \in [OnpremNodes -> BOOLEAN]
    /\ oosTaint \in SUBSET OnpremNodes
    /\ cloud \in SUBSET VmNames
    /\ knodes \in SUBSET cloud
    /\ cordoned = {}
    /\ drainTaint = {}
    /\ gsAllocated = [vm \in VmNames |-> 0]
    /\ records \in StartupRecords
    /\ uids = Cardinality(records)
    /\ succeeded = {}
    /\ live = {"r1"}
    /\ router = [r \in Replicas |-> IdleRouter]
    /\ createEvt = [r \in Replicas |-> FALSE]
    /\ phaseEvt = [r \in Replicas |-> {}]
    /\ flow = [r \in Replicas |-> IdleFlow]
    /\ joinTasks = [r \in Replicas |-> {}]
    /\ activeSleep = [r \in Replicas |-> FALSE]
    /\ sweep = [r \in Replicas |-> IdleSweep]
    /\ wstate = [r \in Replicas |-> [n \in OnpremNodes |-> NoState]]
    /\ lease = NoLease
    /\ whandler = [r \in Replicas |-> IdleHandler]
    /\ wflow = [r \in Replicas |-> IdleWFlow]
    /\ wjoin = [r \in Replicas |-> {}]
    /\ wsweep = [r \in Replicas |-> IdleSweep]
    /\ naming = NoNaming
    /\ calls = NoCalls
    /\ locking = NoLocking
    /\ patching = NoPatching
    /\ labeling = NoLabeling

NextStartup ==
    \/ Tick
    \/ \E r \in Replicas, n \in OnpremNodes : on_startup(r, n)

SpecStartup == InitStartup /\ [][NextStartup]_vars

\* The VM-name generator alone: one call on every node name and timestamp.
InitNames ==
    /\ InitCluster
    /\ live = {"r1"}
    /\ naming \in {[NoNaming EXCEPT !.name = t, !.ts = ts] :
                      t \in NodeNameTexts, ts \in TimestampTexts}
    /\ calls = NoCalls
    /\ locking = NoLocking
    /\ patching = NoPatching
    /\ labeling = NoLabeling

NextNames == call_generate_vm_name

SpecNames == InitNames /\ [][NextNames]_vars

\* ------------------------------------------------------------ claims
\* the same NodeFailover object before and after a step
SameRecord(o, w) == o.uid = w.uid

\* C1: every write to status.phase keeps or raises the rank of the phase in
\* Pending < Creating < Active < Recovering < Draining < Completed; the rank
\* of a node's record falls only when the record is deleted (and a new one
\* made).  Stated for every step over the records that survive the step.
C1_PhaseNeverBackward ==
    [][\A o \in records, w \in records' :
          SameRecord(o, w) => Rank(w.phase) >= Rank(o.phase)]_vars

\* C2: at most one replica at a time is between a successful acquire of the
\* lock vm-create-<n> and its release, also while the holder waits for
\* create_instance or sleeps in its retry back-off.
C2_LockMutualExclusion ==
    \A r1 \in Replicas, r2 \in Replicas :
        (InLock(r1) /\ InLock(r2) /\ wflow[r1].n = wflow[r2].n) => r1 = r2

\* C3: when both replicas handle the same unready event, one replica calls
\* createInstance and one cloud VM exists for the node: never are two replicas
\* inside createInstance for the node, never does the cloud hold two VMs of it.
C3_OneCreatorOneVm ==
    \A n \in OnpremNodes :
        /\ Cardinality({r \in Replicas : flow[r].pc = "creating" /\ flow[r].n = n}) <= 1
        /\ Cardinality(Matching(n)) <= 1

\* C4: when the node object or the VM of a joined substitute is deleted, the
\* number of Allocated GameServers on the substitute is 0.
C4_NoDeleteWhileAllocated ==
    [][\A vm \in VmNames :
          (\/ vm \in knodes /\ vm \notin knodes'
           \/ vm \in knodes /\ vm \in cloud /\ vm \notin cloud')
          => gsAllocated[vm] = 0]_vars

\* the record of node n is in phase Active, names its VM and carries
\* NodeJoined = True
ActiveAndJoined(n) ==
    /\ Has(records, n)
    /\ Get(records, n).phase = ACTIVE
    /\ Get(records, n).vm # NoVm
    /\ Get(records, n).conds[NODE_JOINED] = CondTrue

\* createInstance has succeeded for node n and the substitute is registered
\* as a cluster node
SubstituteJoined(n) == Matching(n) # {} /\ Matching(n) \subseteq knodes

\* C5: if an on-premise node becomes unready and stays unready, createInstance
\* succeeds and the substitute registers as a cluster node, then under fair
\* scheduling the node's record reaches phase Active with gcpVmName set and
\* NodeJoined = True.
C5_UnreadyLeadsToActive ==
    \A n \in OnpremNodes :
        (<>[](~ready[n] /\ SubstituteJoined(n))) => <>ActiveAndJoined(n)

\* the failover of node n is wound up: the out-of-service taint is off the
\* node, the record is Completed, its VM and the VM's node object are gone
WoundUp(n) ==
    /\ n \notin oosTaint
    /\ Has(records, n)
    /\ Get(records, n).phase = COMPLETED
    /\ Get(records, n).vm \notin cloud
    /\ Get(records, n).vm \notin knodes

\* C6: if a record is Active and its on-premise node becomes ready and stays
\* ready while the Allocated count on the substitute reaches and stays 0,
\* then in the end the out-of-service taint is removed, the substitute's node
\* object and VM are deleted and the record is Completed.
C6_RecoveredLeadsToCompleted ==
    \A n \in OnpremNodes :
        [](ActiveAndJoined(n) =>
             ((<>[](ready[n] /\ \A vm \in VmNames : gsAllocated[vm] = 0))
                 => <>WoundUp(n)))

\* C7: status.vmCreationAttempts of every record is at most
\* MAX_VM_CREATION_ATTEMPTS, in every reachable state.
C7_AttemptsCapped ==
    \A rec \in records : rec.attempts <= MAX_VM_CREATION_ATTEMPTS

\* C7 witness: the record is at the cap while a replica that read the value
\* below the cap is about to write its increment.
C7_StaleIncrementAtCap ==
    \E rec \in records, r \in Replicas :
        /\ rec.attempts = MAX_VM_CREATION_ATTEMPTS
        /\ flow[r].pc = "cfv_inc"
        /\ flow[r].n = rec.onprem
        /\ flow[r].att + 1 = MAX_VM_CREATION_ATTEMPTS

\* C8: at every instant there is at most one NodeFailover object per
\* on-premise node name.
C8_OneRecordPerNode ==
    \A n \in OnpremNodes : Cardinality({rec \in records : rec.onprem = n}) <= 1

\* C8 witness: a router that read "no record" is about to send its create
\* while the node already has the record another replica created.
C8_CreateMeetsExisting ==
    \E r \in Replicas :
        /\ router[r].op = "create"
        /\ Has(records, router[r].n)

\* C9: the router handed the same node event a second time, after its first
\* run or while the creation handler of the record sleeps in its grace
\* period, leaves the records as the first run left them: no second record
\* creation (so no second creation event and no second VM-creation flow) for
\* an unready node, no further write for a ready node.
C9_RouterIdempotent ==
    \A n \in OnpremNodes, isReady \in BOOLEAN, t \in Timestamps :
        LET once == RouterResult(records, n, isReady, NextUid, now)
            twice == RouterResult(once, n, isReady, NextUid + 1, t)
        IN  /\ twice = once
            /\ ~Created(once, twice)
            /\ ChangedTo(once, twice) = {}

\* C9 witness: the node is unready, its record exists and the creation
\* handler a replica started for it is in its grace sleep: an unready event
\* that arrives now is a duplicate, and the router leaves the record alone.
C9_DuplicateDuringGrace ==
    \E r \in Replicas, n \in OnpremNodes :
        /\ flow[r].pc = "grace"
        /\ flow[r].n = n
        /\ ~ready[n]
        /\ Has(records, n)
        /\ RouterResult(records, n, FALSE, NextUid, now) = records

\* C10: status.gcpVmName of a record, once set, is never cleared and never
\* changed to another VM name while the record exists.
C10_VmNameWrittenOnce ==
    [][\A o \in records, w \in records' :
          (SameRecord(o, w) /\ o.vm # NoVm) => w.vm = o.vm]_vars

\* C11: every record in phase Creating or later for which a create_instance
\* call has succeeded names a VM, and the VM it names is the one that call
\* created (as long as that VM is in the cloud).
C11_NamesTheCreatedVm ==
    \A rec \in records, s \in succeeded :
        (s.uid = rec.uid /\ Rank(rec.phase) >= Rank(CREATING)) => rec.vm = s.vm

\* C12: every record whose phase is Draining has recoveryDetectedAt set.
C12_DrainingHasRecoveryTime ==
    \A rec \in records : rec.phase = DRAINING => rec.recAt # NoTime


\* C13: within one failover cycle (one record) recoveryDetectedAt is set
\* exactly once: once it is set, no step overwrites it with another time or
\* resets it to unset.
C13_RecoveryTimeSetOnce ==
    [][\A o \in records, w \in records' :
          (SameRecord(o, w) /\ o.recAt # NoTime) => w.recAt = o.recAt]_vars

\* C14: a record enters phase Recovering, and its recoveryDetectedAt is
\* written, only from phase Active: no step moves a Pending or Creating
\* record to Recovering.
C14_RecoveringOnlyFromActive ==
    [][\A o \in records, w \in records' :
          (/\ SameRecord(o, w)
           /\ \/ (w.phase = RECOVERING /\ o.phase # RECOVERING)
              \/ w.recAt # o.recAt)
          => o.phase = ACTIVE]_vars

\* C15: flap absorption.  When on_nodefailover_create re-checks readiness
\* after the grace period and finds the node ready, it makes no
\* create_instance call (the handler ends), no create_instance call has
\* succeeded for the record, and the record is Completed; and the record of
\* an absorbed flap stays Completed for as long as it exists.  A record is
\* Completed without a VM name exactly when the grace re-check completed it:
\* the sweep completes only records that name a VM.
C15_FlapAbsorbed ==
    [][/\ \A r \in Replicas :
             (grace_expired(r) /\ ready[flow[r].n])
             => /\ flow'[r].pc = "idle"
                /\ Has(records', flow[r].n)
                /\ Get(records', flow[r].n).phase = COMPLETED
                /\ \A s \in succeeded' : s.uid # Get(records', flow[r].n).uid
       /\ \A o \in records, w \in records' :
             (SameRecord(o, w) /\ o.phase = COMPLETED /\ o.vm = NoVm)
             => w.phase = COMPLETED]_vars

\* C16: in every state in which a node's record is in Draining, what the
\* Event Router decides for an unready event of that node is to delete the
\* record and create a new one in phase Pending (a fresh failover cycle).
C16_RefailureInDrainingRestarts ==
    \A n \in OnpremNodes :
        (Has(records, n) /\ Get(records, n).phase = DRAINING)
        => /\ RouterOp(records, n, FALSE) = "recreate"
           /\ LET recs == RouterResult(records, n, FALSE, NextUid, now)
              IN  /\ Has(recs, n)
                  /\ Get(recs, n).phase = PENDING
                  /\ Get(recs, n).uid # Get(records, n).uid

\* C17: for a node whose record exists in Pending, Creating, Active,
\* Recovering or Draining, the Event Router handed an unready event decides
\* "no action" (it returns at line 42, before any call that writes) and the
\* records after its run are the records before it: none added, none
\* removed, no field of the existing record changed.
C17_UnreadyOnOpenRecordNoChange ==
    \A n \in OnpremNodes :
        (Has(records, n) /\ Get(records, n).phase # COMPLETED)
        => /\ RouterOp(records, n, FALSE) = "idle"
           /\ RouterResult(records, n, FALSE, NextUid, now) = records

\* C17 witness: the node is unready again while its record is in Draining
\* and names a VM, and a replica is free to handle the unready event.
C17_UnreadyWhileDraining ==
    \E n \in OnpremNodes, r \in live :
        /\ ~ready[n]
        /\ ~Busy(r)
        /\ Has(records, n)
        /\ Get(records, n).phase = DRAINING
        /\ Get(records, n).vm \in cloud

RecoveryDetected(vm) ==
    \/ \E r \in live : /\ wstate[r][vm.node].exists
                       /\ wstate[r][vm.node].vm = vm
                       /\ wstate[r][vm.node].recAt
    \/ \E rec \in records : rec.vm = vm /\ rec.recAt # NoTime

\* C19: a substitute whose on-premise node has recovered carries the taint
\* temporary-node=draining:NoSchedule before its Allocated count decides its
\* destruction.  The cleanup that acts on a count of zero cordons the node
\* (drain_node), then deletes the node object, then destroys the VM: every
\* step that cordons the substitute, or deletes the node object of the
\* cordoned substitute, finds the taint on it.
C19_TaintedBeforeDestroyed ==
    [][\A vm \in VmNames :
          (/\ RecoveryDetected(vm)
           /\ \/ vm \in cordoned' \ cordoned
              \/ vm \in cordoned /\ vm \in knodes \ knodes')
          => vm \in drainTaint]_vars

\* substitute vm is a cluster node and the Draining record of its node names
\* it: what _cleanup_draining_vms counts the GameServers of
DrainingSubstitute(vm) ==
    /\ vm \in knodes
    /\ \E rec \in records : rec.phase = DRAINING /\ rec.vm = vm

C21_FailedCountKeepsWaiting ==
    [][\A r \in Replicas, rec \in records :
          (/\ rec.phase = DRAINING
           /\ rec.vm # NoVm
           /\ rec.vm \in knodes)
          => /\ count_gameserver_pods_on_node(rec.vm, FALSE) # 0
             /\ (sweep_start(r) /\ sweep_record(r, rec, FALSE))
                => /\ rec.vm \in knodes'
                   /\ (rec.vm \in cloud') = (rec.vm \in cloud)
                   /\ (rec.vm \in cordoned') = (rec.vm \in cordoned)
                   /\ rec \in records'
                   /\ sweep'[r] = sweep[r]]_vars

\* a sweep is about to look at a Draining record whose substitute is a
\* cluster node with no Allocated GameServer left: only a failed listing
\* keeps the sweep from the cleanup
C21_SweepCountsDrainedSubstitute ==
    \E r \in live, rec \in records :
        /\ ~Busy(r)
        /\ sweep[r].pc = "idle"
        /\ rec.phase = DRAINING
        /\ rec.vm \in knodes
        /\ rec.vm \in cloud
        /\ gsAllocated[rec.vm] = 0
        /\ rec.vm \notin cordoned

\* the set of records with their phases
Phases(recs) == {<<rec.name, rec.phase>> : rec \in recs}

\* C22: the startup pass is idempotent: on every cluster and cloud state,
\* reconstruct_state run twice in a row (nothing else changing) leaves the
\* same records with the same phases as reconstruct_state run once.
C22_StartupIdempotent ==
    \A n \in OnpremNodes, ok1 \in BOOLEAN, ok2 \in BOOLEAN :
      \A vm \in IF Matching(n) = {} THEN {NoVm} ELSE Matching(n) :
        LET once == ReconstructResult(records, n, ready[n], Matching(n), vm,
                                      ok1, NextUid, now)
            twice == ReconstructResult(once, n, ready[n], Matching(n), vm,
                                       ok2, NextUid + 1, now)
        IN  Phases(twice) = Phases(once)

\* a restart would find the record of node n in Creating with its VM named,
\* no NodeJoined condition, and the VM registered as a cluster node
CreatedAndJoinedUnrecorded(n) ==
    /\ Has(records, n)
    /\ Get(records, n).phase = CREATING
    /\ Get(records, n).vm # NoVm
    /\ Get(records, n).vm \in knodes
    /\ Get(records, n).conds[NODE_JOINED] = Unset

\* C23: when the operator starts on a record in Creating that names its VM,
\* has no NodeJoined condition, and whose VM is already a cluster node, the
\* startup pass leaves the record in Active with NodeJoined = True; it does
\* not leave it in Creating.
C23_RestartAdvancesJoinedVm ==
    \A n \in OnpremNodes :
        CreatedAndJoinedUnrecorded(n)
        => \A taintOk \in BOOLEAN, vm \in Matching(n) \cup {NoVm} :
              LET new == ReconstructResult(records, n, ready[n], Matching(n),
                                           vm, taintOk, NextUid, now)
              IN  /\ Get(new, n).phase = ACTIVE
                  /\ Get(new, n).conds[NODE_JOINED] = CondTrue

\* C24: for an on-premise node without a record the startup pass creates a
\* record only if the node is unready: in phase Active, naming a matching
\* cloud VM, with VMCreated = True and NodeJoined = True, when a VM with the
\* node's prefix exists; in phase Pending when none exists.  For a ready node
\* without a record it leaves the store as it is.
C24_StartupCreatesOnlyForUnready ==
    \A n \in OnpremNodes :
        ~Has(records, n)
        => \A taintOk \in BOOLEAN :
           \A vm \in IF Matching(n) = {} THEN {NoVm} ELSE Matching(n) :
              LET new == ReconstructResult(records, n, ready[n], Matching(n),
                                           vm, taintOk, NextUid, now)
              IN  IF ready[n]
                  THEN new = records
                  ELSE IF Matching(n) # {}
                  THEN /\ Has(new, n)
                       /\ Get(new, n).phase = ACTIVE
                       /\ Get(new, n).vm \in Matching(n)
                       /\ Get(new, n).conds[VM_CREATED] = CondTrue
                       /\ Get(new, n).conds[NODE_JOINED] = CondTrue
                  ELSE new = records \cup {NewRecord(n, NextUid)}

\* the text matches ^[a-z][a-z0-9-]{0,62}$
MatchesVmNameRule(text) ==
    /\ Len(text) >= 1
    /\ Len(text) <= VM_NAME_LIMIT
    /\ text[1] \in AsciiLower
    /\ \A i \in 1..Len(text) : text[i] \in AsciiLower \cup AsciiDigits \cup {"-"}

\* C25: for every non-empty node name over the alphabet and every timestamp,
\* generate_vm_name returns a text of at most 63 characters that starts with
\* a lowercase ASCII letter and holds only characters of [a-z0-9-], also when
\* the node name is longer than the budget and is truncated.
C25_VmNameWellFormed ==
    naming.out # <<>> => MatchesVmNameRule(naming.out)

\* C26: for every record, create_failover_vm and its retries call
\* create_instance at most MAX_VM_CREATION_ATTEMPTS times, also when the status
\* write that increments vmCreationAttempts fails.
C26_CreateCallsCapped ==
    \A u \in 1..MaxRecords : calls[u] <= MAX_VM_CREATION_ATTEMPTS

\* C27: when the join wait for a created VM times out, the record gets
\* NodeJoined = False with reason JoinTimeout and the VM is deleted: after the
\* step that handles the timeout the cloud does not hold the VM.
C27_JoinTimeoutDeletesVm ==
    [][\A r \in Replicas, vm \in VmNames :
          (/\ wait_for_node_join(r, vm)
           /\ vm \notin knodes
           /\ Has(records, vm.node))
          => /\ Get(records', vm.node).conds[NODE_JOINED] = CondFalse("JoinTimeout")
             /\ vm \notin cloud']_vars

\* The record pipeline of NextCycle under the scheduling of the event loop: a
\* coroutine that can run is run in the end and a sleep that is over returns.
\* Failures and recoveries of the on-premise node, the registration of a
\* booted VM and the game servers' allocation are up to the environment.
FairCycle ==
    \A r \in Replicas :
        /\ WF_vars(\E n \in OnpremNodes : on_node_event(r, n))
        /\ WF_vars(router_write(r))
        /\ WF_vars(\E n \in OnpremNodes : on_nodefailover_create(r, n))
        /\ WF_vars(grace_expired(r))
        /\ WF_vars(cfv_inc(r))
        /\ WF_vars(create_done(r))
        /\ WF_vars(backoff_expired(r))
        /\ WF_vars(\E vm \in VmNames : wait_for_node_join(r, vm))
        /\ WF_vars(on_phase_active(r))
        /\ WF_vars(\E n \in OnpremNodes : handle_active_phase(r, n))
        /\ WF_vars(\E n \in OnpremNodes : handle_recovering_phase(r, n))
        /\ WF_vars(sweep_start(r))
        /\ WF_vars(sweep_orphan_deleted(r))
        /\ WF_vars(sweep_delete_node(r))
        /\ WF_vars(sweep_vm_deleted(r))

SpecCycleFair == Init /\ [][NextCycle]_vars /\ FairCycle

\* the record of node n carries NodeJoined = False / JoinTimeout after a
\* attempts, with the node unready and attempts left
JoinTimedOut(n, a) ==
    /\ Has(records, n)
    /\ Get(records, n).conds[NODE_JOINED] = CondFalse("JoinTimeout")
    /\ Get(records, n).attempts = a
    /\ a < MAX_VM_CREATION_ATTEMPTS
    /\ ~ready[n]

\* C28: after a join timeout, while the on-premise node stays unready and
\* attempts are left, the record gets another VM-creation attempt in the end
\* (its attempts grow); it does not stay as the timeout left it for ever.
C28_JoinTimeoutLeadsToRetry ==
    \A n \in OnpremNodes, a \in 0..(MAX_VM_CREATION_ATTEMPTS - 1) :
        JoinTimedOut(n, a)
        ~> \/ ready[n]
           \/ ~Has(records, n)
           \/ Get(records, n).attempts > a

\* C29: whenever a record's phase becomes Draining, the write leaves its
\* on-premise node without the taint node.kubernetes.io/out-of-service.
C29_DrainingOnlyUntainted ==
    [][\A n \in OnpremNodes :
          (/\ Has(records, n) /\ Has(records', n)
           /\ Get(records, n).phase # DRAINING
           /\ Get(records', n).phase = DRAINING)
          => n \notin oosTaint']_vars

\* replica r is between the read and the write of acquire_lock
WritePending(r) == locking.proc[r].pc \in {"replace", "create"}

\* the write replica r is about to make would take effect on Lease l
WouldTakeEffect(r, l) ==
    \/ locking.proc[r].pc = "create" /\ l.holder = None
    \/ locking.proc[r].pc = "replace" /\ ReplaceAccepted(l, locking.proc[r].rv)

\* C30: acquire_lock returns True only when, at that moment, the Lease is
\* absent, expired or held by the caller, never while another holder's Lease
\* is valid; and of two replicas racing to write the Lease one succeeds while
\* the other's write is refused, after which it sleeps and retries (it does
\* not return).
C30_AcquireOnlyFreeExpiredOrOwn ==
    [][\A r \in Replicas :
          /\ (locking.proc[r].ret # "True" /\ locking'.proc[r].ret = "True")
             => \/ locking.lease.holder = None
                \/ ~StillValid(locking.lease, locking.t)
                \/ locking.lease.holder = r
          /\ \A o \in Replicas \ {r} :
               (/\ WritePending(r) /\ WritePending(o)
                /\ locking'.proc[r].ret = "True")
               => /\ ~WouldTakeEffect(o, locking'.lease)
                  /\ locking'.lease.holder = r
          /\ (WritePending(r) /\ locking'.proc[r] # locking.proc[r]
              /\ locking.lease.holder \notin {None, r}
              /\ StillValid(locking.lease, locking.t))
             => /\ locking'.proc[r].pc = "sleep"
                /\ locking'.proc[r].why = "conflict"
                /\ locking'.proc[r].ret = "none"
                /\ locking'.lease = locking.lease]_vars

\* two replicas raced for the Lease: one holds it, the other was refused with
\* a conflict and sleeps before its retry
C30_RaceWonAndLost ==
    \E r \in Replicas, o \in Replicas :
        /\ r # o
        /\ locking.proc[r].ret = "True"
        /\ locking.proc[r].why \in {"created", "replaced"}
        /\ locking.lease.holder = r
        /\ locking.proc[o].pc = "sleep"
        /\ locking.proc[o].why = "conflict"

C32_PatchKeepsOtherFields ==
    [][\A r \in Replicas :
          (/\ patching.proc[r].pc = "patch"
           /\ patching'.proc[r].pc = "idle"
           /\ "conds" \notin patching.proc[r].named)
          => \A f \in StatusFields \ patching.proc[r].named :
                patching'.obj[f] = patching.obj[f]]_vars

\* C33: once the label patch of wait_for_node_join succeeded, the substitute
\* carries node-type = gcp-temporary and node-location = gcp, whatever the
\* allow-list names, and never node-type = onpremise.
C33_SubstituteLabels ==
    labeling.pc = "labeled"
    => /\ "node-type" \in DOMAIN labeling.node
       /\ labeling.node["node-type"] = "gcp-temporary"
       /\ "node-location" \in DOMAIN labeling.node
       /\ labeling.node["node-location"] = "gcp"

\* C34: whenever the sweep moves a Draining record to Completed, the cloud
\* holds no VM of the name in the record's gcpVmName.
C34_CompletedOnlyWithoutVm ==
    [][\A n \in OnpremNodes :
          (/\ Has(records, n) /\ Has(records', n)
           /\ Get(records, n).phase = DRAINING
           /\ Get(records', n).phase = COMPLETED)
          => Get(records, n).vm \notin cloud']_vars

\* C35: when create_failover_vm finds a VM of the node in the cloud's listing
\* it adopts it: gcpVmName names it, VMCreated is True, the join task for it
\* is started, no create_instance call is made and vmCreationAttempts stays
\* as it was.
C35_AdoptionLeavesAttempts ==
    [][\A r \in Replicas :
          (/\ flow[r].pc = "cfv_inc"
           /\ flow'[r] # flow[r]
           /\ Has(records, flow[r].n)
           /\ Matching(flow[r].n) # {})
          => LET n == flow[r].n
             IN  /\ Get(records', n).vm \in Matching(n)
                 /\ Get(records', n).conds[VM_CREATED] = CondTrue
                 /\ Get(records', n).vm \in joinTasks'[r]
                 /\ flow'[r].pc # "creating"
                 /\ cloud' = cloud
                 /\ Get(records', n).attempts = Get(records, n).attempts]_vars

\* C36: release_lock by a replica whose Lease expired and was taken over by
\* another replica leaves the Lease the other replica holds validly in place.
C36_ReleaseSparesOtherHolder ==
    [][\A r \in Replicas :
          (/\ locking.proc[r].pc = "idle" /\ locking.proc[r].ret = "True"
           /\ locking'.proc[r].pc = "idle" /\ locking'.proc[r].ret = "none"
           /\ locking.lease.holder \notin {None, r}
           /\ StillValid(locking.lease, locking.t))
          => locking'.lease = locking.lease]_vars

\* C37: the out-of-service taint is put on an on-premise node only while its
\* record is Active; handle_active_phase waking from its grace sleep on a
\* record that is Recovering, Draining or Completed by then applies no taint
\* and writes no phase.
C37_TaintOnlyWhileActive ==
    [][\A n \in OnpremNodes :
          /\ (n \notin oosTaint /\ n \in oosTaint')
             => (Has(records, n) /\ Get(records, n).phase = ACTIVE)
          /\ \A r \in Replicas :
               (/\ activeSleep[r] /\ ~activeSleep'[r]
                /\ Has(records, n)
                /\ Get(records, n).phase \in {RECOVERING, DRAINING, COMPLETED})
               => /\ oosTaint' = oosTaint
                  /\ Has(records', n)
                  /\ Get(records', n).phase = Get(records, n).phase]_vars

\* C38: the scan for node n takes an instance that generate_vm_name named for
\* node m for its own exactly when m = n.
C38_ScanFindsOwnVmOnly ==
    naming.found # "none" => (naming.found = "yes" <=> naming.name = naming.scan)

\* C39: a record whose on-premise node has recovered and stays ready reaches
\* Completed in the end, also when it came to Recovering or Draining without
\* a gcpVmName (and does not get one later).
C39_RecoveredWithoutVmCompletes ==
    \A n \in OnpremNodes :
        (/\ Has(records, n)
         /\ Get(records, n).phase \in {RECOVERING, DRAINING}
         /\ Get(records, n).vm = NoVm
         /\ ready[n])
        ~> \/ ~ready[n]
           \/ ~Has(records, n)
           \/ Get(records, n).vm # NoVm
           \/ Get(records, n).phase = COMPLETED

\* C40: NodeJoined = True on a record means that the controller saw a cluster
\* node object of the name in the record's gcpVmName: the condition is not on
\* a record whose VM never joined the cluster.
C40_NodeJoinedMeansJoined ==
    [][\A n \in OnpremNodes :
          (/\ Has(records', n)
           /\ Get(records', n).conds[NODE_JOINED] = CondTrue
           /\ ~(Has(records, n) /\ Get(records, n).conds[NODE_JOINED] = CondTrue))
          => Get(records', n).vm \in knodes]_vars

============================================================================
